---- MODULE Spec2Model ----
(***************************************************************************)
(* A model of the concurrency toolkit of package idioms                    *)
(* (src/pkg/idioms/channels.go and the concurrency file src/unnamed/       *)
(* part_003): goroutines connected by unbuffered channels sharing one      *)
(* context, the WorkerPool, the RateLimiter and the Broadcaster.           *)
(* With them: the ChannelEventBus of src/README.md, the Stack and Queue of *)
(* src/pkg/go124/generics.go and the GenericChannelSubject of              *)
(* src/pkg/oop/patterns/generic_observer.go, each in its own group of      *)
(* variables and with its own specification.                               *)
(*                                                                         *)
(* A goroutine is a process with a program counter.  An unbuffered channel *)
(* operation is a rendezvous: one step moves the sender and the receiver   *)
(* together.  A select whose cases are several ready is a nondeterministic *)
(* choice, as in Go.                                                       *)
(***************************************************************************)
EXTENDS Integers, Sequences, FiniteSets, TLC

\* ------------------------------------------------------------------ bounds
MaxLen == 3        \* longest argument list given to a Generator
MaxVal == 2        \* values are drawn from 1..MaxVal
MaxWorkers == 2    \* FanOutFanIn is run with 1..MaxWorkers workers
MaxInner == 2      \* Bridge is given up to MaxInner inner channels
MaxInnerLen == 2   \* carrying up to MaxInnerLen values, all together
MaxChainLen == 1   \* the composed network is fed 1..m for m up to MaxChainLen
MaxJobs == 5        \* jobs submitted to a WorkerPool
MaxFullWorkers == 1 \* workers of a WorkerPool whose queue is filled
MaxOver == 1        \* jobs submitted beyond the capacity of a WorkerPool's queue
MaxPoolWorkers == 3 \* a WorkerPool is made with 1..MaxPoolWorkers workers
MaxCap == 2         \* a RateLimiter is made with capacity 0..MaxCap
MaxLog == 6         \* calls and ticks of a RateLimiter that are followed
MaxWaiting == 2     \* callers blocked in Wait at the same time
MaxSend == 12       \* calls of Broadcaster.Send
MaxSubs == 2        \* calls of Broadcaster.Subscribe
MaxTake == 1        \* values the consumers of the outboxes receive in all
MaxAfterClose == 1  \* calls of Broadcaster.Send after Close
MaxLate == 1        \* Subscribe is called before Send number MaxLate + 1
MaxBusSubs == 2     \* calls of ChannelEventBus.Subscribe
MaxPublish == 3     \* calls of ChannelEventBus.Publish
MaxBusCloses == 2   \* calls of ChannelEventBus.Close
MaxFanLen == 2     \* FanOutFanIn is fed 1..m for m up to MaxFanLen
MaxOps == 5        \* calls made on a Stack or on a Queue
MaxIds == 2        \* subscriber ids given to a GenericChannelSubject: 1..MaxIds
MaxMade == 2       \* calls of GenericChannelSubject.Subscribe
MaxBuf == 1        \* bufferSize given to it: 0 or MaxBuf
MaxEvents == 2     \* calls of GenericChannelSubject.Publish
MaxSubjectCloses == 2 \* calls of GenericChannelSubject.Close
MaxSubjectCalls == 4  \* calls of its Subscribe, Publish and Close in all

\* ------------------------------------------------------------------ state
VARIABLES
  ctxDone,       \* the shared context has been cancelled
  net,           \* goroutine -> [kind, in, out, out2, values]: what it was built with
  pc,            \* goroutine -> its position in its body
  val,           \* goroutine -> the value it received last and holds
  idx,           \* Generator -> index of the next value of its argument list
  closed,        \* channel -> how many times close() was called on it
  got,           \* consumer -> the values it has received, in order
  wg,            \* merge/FanIn: the WaitGroup counter
  chanStream,    \* Bridge: the inner channels still queued on the outer channel
  streamClosed,  \* Bridge: the outer channel has been closed by its owner
  panic,         \* "none", or the runtime panic that ended the program
  \* WorkerPool
  poolWorkers,   \* p.workers
  jobs,          \* p.jobs: the queued jobs, oldest first
  jobsClosed,    \* close(p.jobs) has been called
  poolWg,        \* p.wg: the WaitGroup counter
  wpc,           \* worker -> "idle" (receiving from p.jobs), "running", "done"
  wjob,          \* worker -> the job it is running (0: none)
  submitted,     \* how many Submit calls have returned: jobs 1..submitted
  started,       \* job -> how many times a worker called it
  finished,      \* job -> how many times it returned
  closePc,       \* the caller of Close: "idle", "waiting" (in wg.Wait), "returned"
  poolPanic,     \* "none", or the runtime panic that ended the program
  \* RateLimiter
  rlCap,         \* cap(rl.tokens)
  tokens,        \* len(rl.tokens): the tokens in the bucket
  stopClosed,    \* close(rl.stop) has been called
  refillPc,      \* the refill goroutine: "select" or "done"
  waiting,       \* the callers blocked in Wait, the one who blocked first at the head
  rlLog,         \* what happened so far: "T"/"F" an Allow that returned
                 \* true/false, "tick" a tick handled, "W" a Wait that returned
  rlPanic,       \* "none", or the runtime panic that ended the program
  \* Broadcaster
  bDone,         \* b.ctx is cancelled
  input,         \* b.input: the values waiting in the inbox
  subscribers,   \* b.subscribers: the outboxes, in the order of Subscribe
  outbox,        \* outbox[c]: the values waiting in outbox c
  outClosed,     \* outClosed[c]: how many times outbox c was closed
  recvd,         \* recvd[c]: what the consumer of outbox c has received
  bpc,           \* the dispatcher: "select", "rlock", "broadcast",
                 \* "closeAll" or "done"
  bval,          \* the value the dispatcher took from the inbox
  bi,            \* the index the dispatcher's loop over b.subscribers is at
  bn,            \* the length of b.subscribers when that loop began
  sends,         \* how many times Send was called; Send number k sends k
  lateSends,     \* how many of these calls came after Close
  accepted,      \* the values Send put in the inbox, in order
  dispatched,    \* the broadcasts begun: [v |-> value, n |-> subscribers]
  dropped,       \* dropped[c]: the values skipped for outbox c, each with
                 \* the length of the outbox at that moment
  bPanic,        \* "none", or the runtime panic that ended the program
  \* ChannelEventBus
  busSubscribers, \* b.subscribers: event type -> its channels, in order
  busBuf,         \* busBuf[c]: the events waiting in channel c
  busClosed,      \* busClosed[c]: how many times channel c was closed
  busGot,         \* busGot[c]: what the listener of channel c has received
  busPublished,   \* how many times Publish was called
  busCalls,       \* busCalls[k]: call k of Publish: the type of its event, the
                  \* channels it has still to offer it to, and whether it
                  \* is still running (holds b.mu for reading)
  busCloses,      \* how many times Close was called
  busPanic,       \* "none", or the runtime panic that ended the program
  \* Stack and Queue
  stack,          \* *s: the slice of a Stack, bottom first
  stackLog,       \* the calls made on it and what they returned
  items,          \* q.items: the slice of a Queue, oldest first
  queueLog,       \* the calls made on it and what they returned
  \* GenericChannelSubject
  gsSubscribers,  \* s.subscribers: id -> channel
  gsId,           \* gsId[c]: the id channel c was made for
  gsCap,          \* gsCap[c]: the bufferSize channel c was made with
  gsBuf,          \* gsBuf[c]: the events waiting in channel c
  gsGot,          \* gsGot[c]: how many events the reader of channel c has received
  gsClosed,       \* gsClosed[c]: how many times channel c was closed
  gsEvents,       \* how many times Publish was called; call k publishes k
  gsCalls,        \* gsCalls[k]: call k of Publish: the channels it has still to
                  \* offer its event to, and whether it is still running
                  \* (holds s.mu for reading)
  gsCloses,       \* how many times Close was called
  gsLast,         \* the call made last: [op, id]
  gsPanic         \* "none", or the runtime panic that ended the program

chanVars == <<ctxDone, net, pc, val, idx, closed, got, wg, chanStream,
              streamClosed, panic>>

poolVars == <<poolWorkers, jobs, jobsClosed, poolWg, wpc, wjob, submitted,
              started, finished, closePc, poolPanic>>

rlVars == <<rlCap, tokens, stopClosed, refillPc, waiting, rlLog, rlPanic>>

bVars == <<bDone, input, subscribers, outbox, outClosed, recvd, bpc, bval, bi,
           bn, sends, lateSends, accepted, dispatched, dropped, bPanic>>

busVars == <<busSubscribers, busBuf, busClosed, busGot, busPublished,
             busCalls, busCloses, busPanic>>

dsVars == <<stack, stackLog, items, queueLog>>

gsVars == <<gsSubscribers, gsId, gsCap, gsBuf, gsGot, gsClosed,
            gsEvents, gsCalls, gsCloses, gsLast, gsPanic>>

vars == <<chanVars, poolVars, rlVars, bVars, busVars, dsVars, gsVars>>

\* What a specification of one component leaves alone.
notChan == <<poolVars, rlVars, bVars, busVars, dsVars, gsVars>>
notPool == <<chanVars, rlVars, bVars, busVars, dsVars, gsVars>>
notLimiter == <<chanVars, poolVars, bVars, busVars, dsVars, gsVars>>
notBroadcaster == <<chanVars, poolVars, rlVars, busVars, dsVars, gsVars>>
notBus == <<chanVars, poolVars, rlVars, bVars, dsVars, gsVars>>
notStructs == <<chanVars, poolVars, rlVars, bVars, busVars, gsVars>>
notSubject == <<chanVars, poolVars, rlVars, bVars, busVars, dsVars>>

\* The components a specification is not about have not been constructed.
NoChannels ==
  /\ ctxDone = FALSE /\ net = <<>> /\ pc = <<>> /\ val = <<>> /\ idx = <<>>
  /\ closed = <<>> /\ got = <<>> /\ wg = 0 /\ chanStream = <<>>
  /\ streamClosed = FALSE /\ panic = "none"

NoPool ==
  /\ poolWorkers = 0 /\ jobs = <<>> /\ jobsClosed = FALSE /\ poolWg = 0
  /\ wpc = <<>> /\ wjob = <<>> /\ submitted = 0 /\ started = <<>>
  /\ finished = <<>> /\ closePc = "idle" /\ poolPanic = "none"

NoLimiter ==
  /\ rlCap = 0 /\ tokens = 0 /\ stopClosed = FALSE /\ refillPc = "done"
  /\ waiting = <<>> /\ rlLog = <<>> /\ rlPanic = "none"

NoBus ==
  /\ busSubscribers = <<>> /\ busBuf = <<>> /\ busClosed = <<>>
  /\ busGot = <<>> /\ busPublished = 0 /\ busCalls = <<>> /\ busCloses = 0
  /\ busPanic = "none"

NoStructs == stack = <<>> /\ stackLog = <<>> /\ items = <<>> /\ queueLog = <<>>

NoSubject ==
  /\ gsSubscribers = <<>> /\ gsId = <<>> /\ gsCap = <<>> /\ gsBuf = <<>>
  /\ gsGot = <<>> /\ gsClosed = <<>> /\ gsEvents = 0 /\ gsCalls = <<>>
  /\ gsCloses = 0 /\ gsLast = [op |-> "none", id |-> 0] /\ gsPanic = "none"

NoBroadcaster ==
  /\ bDone = FALSE /\ input = <<>> /\ subscribers = <<>> /\ outbox = <<>>
  /\ outClosed = <<>> /\ recvd = <<>> /\ bpc = "done" /\ bval = 0 /\ bi = 0
  /\ bn = 0 /\ sends = 0 /\ lateSends = 0 /\ accepted = <<>> /\ dispatched = <<>>
  /\ dropped = <<>> /\ bPanic = "none"

\* ------------------------------------------------------------ identifiers
NoChan == <<"none", 0>>

Gen      == <<"gen", 1>>
Stage    == <<"stage", 1>>
Cons     == <<"cons", 1>>
Cons2    == <<"cons", 2>>
TeeP     == <<"tee", 1>>
Tee2     == <<"tee", 2>>        \* Tee's second output channel
OrDoneP  == <<"ordone", 0>>
BridgeP  == <<"bridge", 1>>
Barrier  == <<"barrier", 1>>
Worker(i)    == <<"worker", i>>
Forwarder(i) == <<"forward", i>>
Relay(i)     == <<"ordone", i>>  \* the OrDone relay Bridge starts for inner channel i
Src          == <<"src", 1>>     \* a channel the caller made and feeds itself
Inner(i)     == <<"inner", i>>   \* the Generator feeding inner channel i

\* ------------------------------------------------------------- sequences
RECURSIVE SeqsUpTo(_, _)
SeqsUpTo(n, S) ==
  IF n = 0 THEN {<<>>}
  ELSE LET shorter == SeqsUpTo(n - 1, S)
       IN shorter \cup {Append(s, x) : s \in {t \in shorter : Len(t) = n - 1}, x \in S}

IsPrefix(s, t) == Len(s) <= Len(t) /\ SubSeq(t, 1, Len(s)) = s

MapSeq(F(_), s) == [i \in 1..Len(s) |-> F(s[i])]

\* The argument lists the model gives to Generator.
Inputs == SeqsUpTo(MaxLen, 1..MaxVal) \cup {<<1, 2, 3, 4, 5>>}

\* Generator(1, 2, ..., m)
Iota(m) == [i \in 1..m |-> i]

\* The argument lists of the Generator feeding FanOutFanIn: distinct
\* values, and one with a repeated value.
FanInputs == {Iota(m) : m \in 0..MaxFanLen} \cup {<<2, 2>>}

\* ------------------------------------------------- the stages' transforms
SafePipelineF_Squares(x) == x * x

SafePipelineF(x) == x * 2
SquareF(x) == x * x
WorkerF(x) == x * x

Transform(kind, x) ==
  CASE kind = "SafePipeline" -> SafePipelineF(x)
    [] kind = "Square" -> SquareF(x)
    [] kind = "worker" -> WorkerF(x)
    [] OTHER -> x

\* ----------------------------------------------- where a goroutine stands
\* What a goroutine is blocked on at its position: the channel it receives
\* from (recv), the channel it offers v on (send), whether the select has a
\* ctx.Done() case (quit), and where each outcome leads.  At "exit" the
\* deferred calls are pending: close(close) or wg.Done().  The value held
\* is used again after the send only where keep says so.
Idle == [recv |-> NoChan, onRecv |-> "", onClosed |-> "",
         send |-> NoChan, v |-> 0, onSend |-> "",
         quit |-> FALSE, onQuit |-> "exit",
         close |-> NoChan, wgDone |-> FALSE, onExit |-> "done",
         wgWait |-> FALSE, keep |-> FALSE]

\* A producer that returns one iteration early.
GeneratorAt_StopsEarly(p) ==
  CASE pc[p] = "select" ->
         [Idle EXCEPT !.send = net[p].out, !.v = net[p].values[idx[p]],
                      !.onSend = IF idx[p] + 1 < Len(net[p].values) THEN "select" ELSE "exit",
                      !.quit = TRUE]
    [] pc[p] = "exit" -> [Idle EXCEPT !.close = net[p].out]
    [] OTHER -> Idle

\* Generator and GenerateNumbers: for each value select { Done; ch <- v }.
GeneratorAt(p) ==
  CASE pc[p] = "select" ->
         [Idle EXCEPT !.send = net[p].out, !.v = net[p].values[idx[p]],
                      !.onSend = IF idx[p] < Len(net[p].values) THEN "select" ELSE "exit",
                      !.quit = TRUE]
    [] pc[p] = "exit" -> [Idle EXCEPT !.close = net[p].out]
    [] OTHER -> Idle

\* The caller's own goroutine feeding the channel it hands to a stage or to
\* OrDone: it sends its values without looking at the context, and then
\* closes the channel ("Feeder") or leaves it open ("OpenFeeder").
FeederAt(p) ==
  CASE pc[p] = "send" ->
         [Idle EXCEPT !.send = net[p].out, !.v = net[p].values[idx[p]],
                      !.onSend = IF idx[p] < Len(net[p].values) THEN "send"
                                 ELSE IF net[p].kind = "Feeder" THEN "exit"
                                 ELSE "idle"]
    [] pc[p] = "exit" -> [Idle EXCEPT !.close = net[p].out]
    [] OTHER -> Idle

StageAt_NoDoneCase(p) ==
  CASE pc[p] = "range" ->
         [Idle EXCEPT !.recv = net[p].in, !.onRecv = "select", !.onClosed = "exit"]
    [] pc[p] = "select" ->
         [Idle EXCEPT !.send = net[p].out, !.v = Transform(net[p].kind, val[p]),
                      !.onSend = "range"]
    [] pc[p] = "exit" -> [Idle EXCEPT !.close = net[p].out]
    [] OTHER -> Idle

\* A stage that, cancelled, drops the value it holds and goes on with the next.
StageAt_SkipsOnCancel(p) ==
  CASE pc[p] = "range" ->
         [Idle EXCEPT !.recv = net[p].in, !.onRecv = "select", !.onClosed = "exit"]
    [] pc[p] = "select" ->
         [Idle EXCEPT !.send = net[p].out, !.v = Transform(net[p].kind, val[p]),
                      !.onSend = "range", !.quit = TRUE, !.onQuit = "range"]
    [] pc[p] = "exit" -> [Idle EXCEPT !.close = net[p].out]
    [] OTHER -> Idle

\* SafePipeline, Square and worker: for x := range in { select { Done; out <- f(x) } }
StageAt(p) ==
  CASE pc[p] = "range" ->
         [Idle EXCEPT !.recv = net[p].in, !.onRecv = "select", !.onClosed = "exit"]
    [] pc[p] = "select" ->
         [Idle EXCEPT !.send = net[p].out, !.v = Transform(net[p].kind, val[p]),
                      !.onSend = "range", !.quit = TRUE]
    [] pc[p] = "exit" -> [Idle EXCEPT !.close = net[p].out]
    [] OTHER -> Idle

\* A forwarder that closes the shared output itself when it returns.
ForwarderAt_ClosesOutput(p) ==
  CASE pc[p] = "range" ->
         [Idle EXCEPT !.recv = net[p].in, !.onRecv = "select", !.onClosed = "exit"]
    [] pc[p] = "select" ->
         [Idle EXCEPT !.send = net[p].out, !.v = val[p],
                      !.onSend = "range", !.quit = TRUE]
    [] pc[p] = "exit" -> [Idle EXCEPT !.wgDone = TRUE, !.close = net[p].out]
    [] OTHER -> Idle

\* A forwarder of merge and of FanIn: the same loop, with wg.Done() deferred.
ForwarderAt(p) ==
  CASE pc[p] = "range" ->
         [Idle EXCEPT !.recv = net[p].in, !.onRecv = "select", !.onClosed = "exit"]
    [] pc[p] = "select" ->
         [Idle EXCEPT !.send = net[p].out, !.v = val[p],
                      !.onSend = "range", !.quit = TRUE]
    [] pc[p] = "exit" -> [Idle EXCEPT !.wgDone = TRUE]
    [] OTHER -> Idle

\* The last goroutine of merge and of FanIn: wg.Wait(); close(output).
BarrierAt(p) ==
  CASE pc[p] = "wait" -> [Idle EXCEPT !.wgWait = TRUE]
    [] pc[p] = "exit" -> [Idle EXCEPT !.close = net[p].out]
    [] OTHER -> Idle

\* A Tee that offers each value on ch2 first.
TeeAt_Ch2First(p) ==
  CASE pc[p] = "range" ->
         [Idle EXCEPT !.recv = net[p].in, !.onRecv = "select1", !.onClosed = "exit"]
    [] pc[p] = "select1" ->
         [Idle EXCEPT !.send = net[p].out2, !.v = val[p],
                      !.onSend = "select2", !.quit = TRUE, !.keep = TRUE]
    [] pc[p] = "select2" ->
         [Idle EXCEPT !.send = net[p].out, !.v = val[p],
                      !.onSend = "range", !.quit = TRUE]
    [] pc[p] = "exit" -> [Idle EXCEPT !.close = net[p].out2, !.onExit = "exit1"]
    [] pc[p] = "exit1" -> [Idle EXCEPT !.close = net[p].out]
    [] OTHER -> Idle

\* A Tee without its defer close(ch2).
TeeAt_LeavesCh2Open(p) ==
  CASE pc[p] = "range" ->
         [Idle EXCEPT !.recv = net[p].in, !.onRecv = "select1", !.onClosed = "exit1"]
    [] pc[p] = "select1" ->
         [Idle EXCEPT !.send = net[p].out, !.v = val[p], !.onQuit = "exit1",
                      !.onSend = "select2", !.quit = TRUE, !.keep = TRUE]
    [] pc[p] = "select2" ->
         [Idle EXCEPT !.send = net[p].out2, !.v = val[p], !.onQuit = "exit1",
                      !.onSend = "range", !.quit = TRUE]
    [] pc[p] = "exit1" -> [Idle EXCEPT !.close = net[p].out]
    [] OTHER -> Idle

TeeAt_Ch1Twice(p) ==
  CASE pc[p] = "range" ->
         [Idle EXCEPT !.recv = net[p].in, !.onRecv = "select1", !.onClosed = "exit"]
    [] pc[p] = "select1" ->
         [Idle EXCEPT !.send = net[p].out, !.v = val[p],
                      !.onSend = "select2", !.quit = TRUE, !.keep = TRUE]
    [] pc[p] = "select2" ->
         [Idle EXCEPT !.send = net[p].out, !.v = val[p],
                      !.onSend = "range", !.quit = TRUE]
    [] pc[p] = "exit" -> [Idle EXCEPT !.close = net[p].out2, !.onExit = "exit1"]
    [] pc[p] = "exit1" -> [Idle EXCEPT !.close = net[p].out]
    [] OTHER -> Idle

\* Tee: each value is offered on ch1 and then on ch2; the deferred calls run
\* last in, first out: close(ch2), then close(ch1).
TeeAt(p) ==
  CASE pc[p] = "range" ->
         [Idle EXCEPT !.recv = net[p].in, !.onRecv = "select1", !.onClosed = "exit"]
    [] pc[p] = "select1" ->
         [Idle EXCEPT !.send = net[p].out, !.v = val[p],
                      !.onSend = "select2", !.quit = TRUE, !.keep = TRUE]
    [] pc[p] = "select2" ->
         [Idle EXCEPT !.send = net[p].out2, !.v = val[p],
                      !.onSend = "range", !.quit = TRUE]
    [] pc[p] = "exit" -> [Idle EXCEPT !.close = net[p].out2, !.onExit = "exit1"]
    [] pc[p] = "exit1" -> [Idle EXCEPT !.close = net[p].out]
    [] OTHER -> Idle

\* An OrDone that receives the next value without forwarding the one it has.
OrDoneAt_DropsValues(p) ==
  CASE pc[p] = "select" ->
         [Idle EXCEPT !.recv = net[p].in, !.onRecv = "select", !.onClosed = "exit",
                      !.quit = TRUE]
    [] pc[p] = "select2" ->
         [Idle EXCEPT !.send = net[p].out, !.v = val[p],
                      !.onSend = "select", !.quit = TRUE]
    [] pc[p] = "exit" -> [Idle EXCEPT !.close = net[p].out]
    [] OTHER -> Idle

\* An OrDone that receives from its source without a ctx.Done() case.
OrDoneAt_PlainReceive(p) ==
  CASE pc[p] = "select" ->
         [Idle EXCEPT !.recv = net[p].in, !.onRecv = "select2", !.onClosed = "exit"]
    [] pc[p] = "select2" ->
         [Idle EXCEPT !.send = net[p].out, !.v = val[p],
                      !.onSend = "select", !.quit = TRUE]
    [] pc[p] = "exit" -> [Idle EXCEPT !.close = net[p].out]
    [] OTHER -> Idle

\* OrDone: for { select { Done; v, ok := <-ch: select { Done; output <- v } } }
OrDoneAt(p) ==
  CASE pc[p] = "select" ->
         [Idle EXCEPT !.recv = net[p].in, !.onRecv = "select2", !.onClosed = "exit",
                      !.quit = TRUE]
    [] pc[p] = "select2" ->
         [Idle EXCEPT !.send = net[p].out, !.v = val[p],
                      !.onSend = "select", !.quit = TRUE]
    [] pc[p] = "exit" -> [Idle EXCEPT !.close = net[p].out]
    [] OTHER -> Idle

\* A Bridge that returns when the inner channel it drains is closed.
BridgeAt_OneInnerOnly(p) ==
  CASE pc[p] = "select" -> [Idle EXCEPT !.quit = TRUE]
    [] pc[p] = "range" ->
         [Idle EXCEPT !.recv = net[p].in, !.onRecv = "select2", !.onClosed = "exit"]
    [] pc[p] = "select2" ->
         [Idle EXCEPT !.send = net[p].out, !.v = val[p],
                      !.onSend = "range", !.quit = TRUE]
    [] pc[p] = "exit" -> [Idle EXCEPT !.close = net[p].out]
    [] OTHER -> Idle

\* Bridge: at "select" it waits for the next inner channel (BridgeTake); at
\* "range" it ranges over the relay it started for that channel.
BridgeAt(p) ==
  CASE pc[p] = "select" -> [Idle EXCEPT !.quit = TRUE]
    [] pc[p] = "range" ->
         [Idle EXCEPT !.recv = net[p].in, !.onRecv = "select2", !.onClosed = "select"]
    [] pc[p] = "select2" ->
         [Idle EXCEPT !.send = net[p].out, !.v = val[p],
                      !.onSend = "range", !.quit = TRUE]
    [] pc[p] = "exit" -> [Idle EXCEPT !.close = net[p].out]
    [] OTHER -> Idle

\* A consumer: for v := range ch { collect v }.
ConsumerAt(p) ==
  CASE pc[p] = "range" ->
         [Idle EXCEPT !.recv = net[p].in, !.onRecv = "range", !.onClosed = "done"]
    [] OTHER -> Idle

At(p) ==
  CASE net[p].kind \in {"Generator", "GenerateNumbers"} -> GeneratorAt(p)
    [] net[p].kind \in {"Feeder", "OpenFeeder"} -> FeederAt(p)
    [] net[p].kind \in {"SafePipeline", "Square", "worker"} -> StageAt(p)
    [] net[p].kind = "forwarder" -> ForwarderAt(p)
    [] net[p].kind = "barrier" -> BarrierAt(p)
    [] net[p].kind = "Tee" -> TeeAt(p)
    [] net[p].kind = "OrDone" -> OrDoneAt(p)
    [] net[p].kind = "Bridge" -> BridgeAt(p)
    [] net[p].kind = "Consumer" -> ConsumerAt(p)
    [] OTHER -> Idle

\* The goroutines that send the values of a list, one by one.
Producers == {"Generator", "GenerateNumbers", "Feeder", "OpenFeeder"}

Goroutines == {p \in DOMAIN net : net[p].kind \notin {"Consumer"}}
Consumers == {p \in DOMAIN net : net[p].kind = "Consumer"}

\* The goroutines offering a send, and those waiting to receive on c.
Senders == {p \in DOMAIN net : At(p).send # NoChan}
ReceiversOn(c) == {p \in DOMAIN net : At(p).recv = c}

\* ------------------------------------------------------------ construction
NewProc(kind, in, out, out2, values) ==
  [kind |-> kind, in |-> in, out |-> out, out2 |-> out2, values |-> values]

NewGenerator(out, values) == NewProc("Generator", NoChan, out, NoChan, values)
NewConsumer(in) == NewProc("Consumer", in, NoChan, NoChan, <<>>)

\* GenerateNumbers(ctx, start, end): for i := start; i <= end; i++.
NumbersFrom(start, end) ==
  IF end < start THEN <<>> ELSE [i \in 1..(end - start + 1) |-> start + i - 1]

\* A feeder with nothing to send closes its channel, or leaves it alone.
FeederStart(kind, values) ==
  IF Len(values) > 0 THEN "send" ELSE IF kind = "Feeder" THEN "exit" ELSE "idle"

\* A Generator whose argument list is empty runs no iteration and returns.
GeneratorStart(values) == IF Len(values) = 0 THEN "exit" ELSE "select"

\* ---------------------------------------------------------------- actions
\* An unbuffered send meets a receive: s hands its value to r.  The sender's
\* loop variable is dead after the send; a consumer appends what it gets.
Xfer(s, r) ==
  LET a == At(s) IN
  /\ panic = "none"
  /\ a.send # NoChan
  /\ At(r).recv = a.send
  /\ closed[a.send] = 0
  /\ pc' = [pc EXCEPT ![s] = a.onSend, ![r] = At(r).onRecv]
  /\ val' = [val EXCEPT ![s] = IF a.keep THEN @ ELSE 0, ![r] = IF r \in DOMAIN got THEN 0 ELSE a.v]
  /\ idx' = [idx EXCEPT ![s] = IF net[s].kind \in Producers THEN @ + 1 ELSE @]
  /\ got' = IF r \in DOMAIN got THEN [got EXCEPT ![r] = Append(@, a.v)] ELSE got
  /\ UNCHANGED <<ctxDone, net, closed, wg, chanStream, streamClosed, panic>>
  /\ UNCHANGED notChan

\* A goroutine blocked on a closed channel: a receive yields "closed" at
\* once; a send panics.
OnClosed(p) ==
  LET a == At(p) IN
  /\ panic = "none"
  /\ \/ a.recv # NoChan /\ closed[a.recv] > 0
     \/ a.send # NoChan /\ closed[a.send] > 0
  /\ IF a.recv # NoChan
     THEN pc' = [pc EXCEPT ![p] = a.onClosed] /\ panic' = panic
     ELSE pc' = pc /\ panic' = "send on closed channel"
  /\ UNCHANGED <<ctxDone, net, val, idx, closed, got, wg, chanStream, streamClosed>>
  /\ UNCHANGED notChan

\* case <-ctx.Done(): return
Quit(p) ==
  /\ panic = "none"
  /\ ctxDone
  /\ At(p).quit
  /\ pc' = [pc EXCEPT ![p] = At(p).onQuit]
  /\ val' = [val EXCEPT ![p] = 0]
  /\ UNCHANGED <<ctxDone, net, idx, closed, got, wg, chanStream, streamClosed, panic>>
  /\ UNCHANGED notChan

\* The deferred call of a returning goroutine: close(ch), or wg.Done().
Exit(p) ==
  LET a == At(p) IN
  /\ panic = "none"
  /\ a.close # NoChan \/ a.wgDone
  /\ pc' = [pc EXCEPT ![p] = a.onExit]
  /\ closed' = IF a.close # NoChan
               THEN [closed EXCEPT ![a.close] = @ + 1] ELSE closed
  /\ wg' = IF a.wgDone THEN wg - 1 ELSE wg
  /\ panic' = IF a.close # NoChan /\ closed[a.close] > 0
              THEN "close of closed channel" ELSE panic
  /\ UNCHANGED <<ctxDone, net, val, idx, got, chanStream, streamClosed>>
  /\ UNCHANGED notChan

WgWait_NoWait(p) ==
  /\ panic = "none"
  /\ At(p).wgWait
  /\ pc' = [pc EXCEPT ![p] = "exit"]
  /\ UNCHANGED <<ctxDone, net, val, idx, closed, got, wg, chanStream, streamClosed, panic>>
  /\ UNCHANGED notChan

\* wg.Wait() returns once the counter is zero.
WgWait(p) ==
  /\ panic = "none"
  /\ At(p).wgWait
  /\ wg = 0
  /\ pc' = [pc EXCEPT ![p] = "exit"]
  /\ UNCHANGED <<ctxDone, net, val, idx, closed, got, wg, chanStream, streamClosed, panic>>
  /\ UNCHANGED notChan

\* Bridge: case ch, ok := <-chanStream.  The outer channel is buffered and
\* was filled by its owner: the receive takes the next inner channel and
\* starts the relay OrDone(ctx, ch) that Bridge then ranges over, or finds
\* the outer channel closed and empty, and returns.
BridgeTake(p) ==
  /\ panic = "none"
  /\ net[p].kind = "Bridge"
  /\ pc[p] = "select"
  /\ chanStream # <<>> \/ streamClosed
  /\ IF chanStream # <<>>
     THEN LET ch == Head(chanStream)
              r == Relay(ch[2])
          IN /\ net' = (r :> NewProc("OrDone", ch, r, NoChan, <<>>))
                          @@ [net EXCEPT ![p].in = r]
             /\ pc' = (r :> "select") @@ [pc EXCEPT ![p] = "range"]
             /\ val' = (r :> 0) @@ val
             /\ idx' = (r :> 0) @@ idx
             /\ closed' = (r :> 0) @@ closed
             /\ chanStream' = Tail(chanStream)
     ELSE /\ pc' = [pc EXCEPT ![p] = "exit"]
          /\ UNCHANGED <<net, val, idx, closed, chanStream>>
  /\ UNCHANGED <<ctxDone, got, wg, streamClosed, panic>>
  /\ UNCHANGED notChan

\* The owner of the context cancels it.
Cancel ==
  /\ panic = "none"
  /\ ~ctxDone
  /\ ctxDone' = TRUE
  /\ UNCHANGED <<net, pc, val, idx, closed, got, wg, chanStream, streamClosed, panic>>
  /\ UNCHANGED notChan

\* A consumer abandons its channel without reading further.
ConsumerStop(p) ==
  /\ panic = "none"
  /\ p \in Consumers
  /\ pc[p] = "range"
  /\ pc' = [pc EXCEPT ![p] = "stopped"]
  /\ UNCHANGED <<ctxDone, net, val, idx, closed, got, wg, chanStream, streamClosed, panic>>
  /\ UNCHANGED notChan

\* ----------------------------------------------------- Generator -> stage
InitPipeline ==
  \E values \in Inputs, kind \in {"SafePipeline", "Square"} :
    /\ net = (Gen :> NewGenerator(Gen, values))
             @@ (Stage :> NewProc(kind, Gen, Stage, NoChan, <<>>))
             @@ (Cons :> NewConsumer(Stage))
    /\ pc = (Gen :> GeneratorStart(values)) @@ (Stage :> "range") @@ (Cons :> "range")
    /\ val = (Gen :> 0) @@ (Stage :> 0) @@ (Cons :> 0)
    /\ idx = (Gen :> 1) @@ (Stage :> 0) @@ (Cons :> 0)
    /\ closed = (Gen :> 0) @@ (Stage :> 0)
    /\ got = (Cons :> <<>>)
    /\ ctxDone = FALSE
    /\ wg = 0
    /\ chanStream = <<>>
    /\ streamClosed = FALSE
    /\ panic = "none"
    /\ NoPool /\ NoLimiter /\ NoBroadcaster /\ NoBus /\ NoStructs /\ NoSubject

NextPipeline ==
  \/ \E s \in Senders : \E r \in ReceiversOn(At(s).send) : Xfer(s, r)
  \/ \E p \in DOMAIN net : OnClosed(p)
  \/ \E p \in DOMAIN net : Quit(p)
  \/ \E p \in DOMAIN net : Exit(p)
  \/ Cancel
  \/ \E p \in DOMAIN net : ConsumerStop(p)

SpecPipeline == InitPipeline /\ [][NextPipeline]_vars

\* ------------------------------------------------------------ FanOutFanIn
\* FanOutFanIn(ctx, input, n), and FanIn(ctx, FanOut(ctx, in, n)...): n
\* workers (kind "worker", or "Square") read the one input; merge starts a
\* forwarder per worker output, wg.Add(1) for each, and the barrier.
FanProcs(n, kind, values) ==
  LET F == [p \in {Gen, Barrier, Cons} \cup {Worker(i) : i \in 1..n}
                   \cup {Forwarder(i) : i \in 1..n} |->
              CASE p = Gen -> NewGenerator(Gen, values)
                [] p = Barrier -> NewProc("barrier", NoChan, Barrier, NoChan, <<>>)
                [] p = Cons -> NewConsumer(Barrier)
                [] p[1] = "worker" -> NewProc(kind, Gen, p, NoChan, <<>>)
                [] OTHER -> NewProc("forwarder", Worker(p[2]), Barrier, NoChan, <<>>)]
  IN F

InitFan ==
  \E values \in FanInputs, n \in 1..MaxWorkers, kind \in {"worker", "Square"} :
    /\ net = FanProcs(n, kind, values)
    /\ pc = [p \in DOMAIN FanProcs(n, kind, values) |->
               CASE p = Gen -> GeneratorStart(values)
                 [] p = Barrier -> "wait"
                 [] OTHER -> "range"]
    /\ val = [p \in DOMAIN FanProcs(n, kind, values) |-> 0]
    /\ idx = [p \in DOMAIN FanProcs(n, kind, values) |-> IF p = Gen THEN 1 ELSE 0]
    /\ closed = [c \in {Gen, Barrier} \cup {Worker(i) : i \in 1..n} |-> 0]
    /\ got = (Cons :> <<>>)
    /\ ctxDone = FALSE
    /\ wg = n
    /\ chanStream = <<>>
    /\ streamClosed = FALSE
    /\ panic = "none"
    /\ NoPool /\ NoLimiter /\ NoBroadcaster /\ NoBus /\ NoStructs /\ NoSubject

NextFan ==
  \/ \E s \in Senders : \E r \in ReceiversOn(At(s).send) : Xfer(s, r)
  \/ \E p \in DOMAIN net : OnClosed(p)
  \/ \E p \in DOMAIN net : Quit(p)
  \/ \E p \in DOMAIN net : Exit(p)
  \/ \E p \in DOMAIN net : WgWait(p)
  \/ Cancel
  \/ \E p \in DOMAIN net : ConsumerStop(p)

SpecFan == InitFan /\ [][NextFan]_vars

\* -------------------------------------------------------------------- Tee
\* out1, out2 := Tee(ctx, Generator(ctx, values...)), each output ranged
\* over by a consumer of its own.
InitTee ==
  \E values \in Inputs :
    /\ net = (Gen :> NewGenerator(Gen, values))
             @@ (TeeP :> NewProc("Tee", Gen, TeeP, Tee2, <<>>))
             @@ (Cons :> NewConsumer(TeeP))
             @@ (Cons2 :> NewConsumer(Tee2))
    /\ pc = (Gen :> GeneratorStart(values)) @@ (TeeP :> "range")
            @@ (Cons :> "range") @@ (Cons2 :> "range")
    /\ val = [p \in {Gen, TeeP, Cons, Cons2} |-> 0]
    /\ idx = [p \in {Gen, TeeP, Cons, Cons2} |-> IF p = Gen THEN 1 ELSE 0]
    /\ closed = [c \in {Gen, TeeP, Tee2} |-> 0]
    /\ got = [c \in {Cons, Cons2} |-> <<>>]
    /\ ctxDone = FALSE
    /\ wg = 0
    /\ chanStream = <<>>
    /\ streamClosed = FALSE
    /\ panic = "none"
    /\ NoPool /\ NoLimiter /\ NoBroadcaster /\ NoBus /\ NoStructs /\ NoSubject

NextTee ==
  \/ \E s \in Senders : \E r \in ReceiversOn(At(s).send) : Xfer(s, r)
  \/ \E p \in DOMAIN net : OnClosed(p)
  \/ \E p \in DOMAIN net : Quit(p)
  \/ \E p \in DOMAIN net : Exit(p)
  \/ Cancel
  \/ \E p \in DOMAIN net : ConsumerStop(p)

SpecTee == InitTee /\ [][NextTee]_vars

\* ----------------------------------------------------------------- OrDone
\* OrDone(ctx, Generator(ctx, values...)), ranged over by a consumer.
InitOrDone ==
  \E values \in Inputs :
    /\ net = (Gen :> NewGenerator(Gen, values))
             @@ (OrDoneP :> NewProc("OrDone", Gen, OrDoneP, NoChan, <<>>))
             @@ (Cons :> NewConsumer(OrDoneP))
    /\ pc = (Gen :> GeneratorStart(values)) @@ (OrDoneP :> "select") @@ (Cons :> "range")
    /\ val = [p \in {Gen, OrDoneP, Cons} |-> 0]
    /\ idx = [p \in {Gen, OrDoneP, Cons} |-> IF p = Gen THEN 1 ELSE 0]
    /\ closed = [c \in {Gen, OrDoneP} |-> 0]
    /\ got = (Cons :> <<>>)
    /\ ctxDone = FALSE
    /\ wg = 0
    /\ chanStream = <<>>
    /\ streamClosed = FALSE
    /\ panic = "none"
    /\ NoPool /\ NoLimiter /\ NoBroadcaster /\ NoBus /\ NoStructs /\ NoSubject

NextOrDone ==
  \/ \E s \in Senders : \E r \in ReceiversOn(At(s).send) : Xfer(s, r)
  \/ \E p \in DOMAIN net : OnClosed(p)
  \/ \E p \in DOMAIN net : Quit(p)
  \/ \E p \in DOMAIN net : Exit(p)
  \/ Cancel
  \/ \E p \in DOMAIN net : ConsumerStop(p)

SpecOrDone == InitOrDone /\ [][NextOrDone]_vars

\* ----------------------------------------------------------------- Bridge
\* Inner channel i is fed by Generator(ctx, 10*i+1, ..., 10*i+m).
InnerValues(i, m) == [j \in 1..m |-> 10 * i + j]

RECURSIVE SumTo(_, _)
SumTo(f, n) == IF n = 0 THEN 0 ELSE f[n] + SumTo(f, n - 1)

\* Bridge(ctx, chanStream) where the owner of chanStream queued k inner
\* channels on it, each fed by a Generator, and then closed it or left it
\* open.
InitBridge ==
  \E k \in 0..MaxInner, lens \in [1..MaxInner -> 0..MaxInnerLen], isClosed \in BOOLEAN :
    /\ \A i \in (k + 1)..MaxInner : lens[i] = 0
    /\ SumTo(lens, MaxInner) <= MaxInnerLen
    /\ net = [p \in {BridgeP, Cons} \cup {Inner(i) : i \in 1..k} |->
               CASE p = BridgeP -> NewProc("Bridge", NoChan, BridgeP, NoChan, <<>>)
                 [] p = Cons -> NewConsumer(BridgeP)
                 [] OTHER -> NewGenerator(p, InnerValues(p[2], lens[p[2]]))]
    /\ pc = [p \in {BridgeP, Cons} \cup {Inner(i) : i \in 1..k} |->
               CASE p = BridgeP -> "select"
                 [] p = Cons -> "range"
                 [] OTHER -> GeneratorStart(InnerValues(p[2], lens[p[2]]))]
    /\ val = [p \in {BridgeP, Cons} \cup {Inner(i) : i \in 1..k} |-> 0]
    /\ idx = [p \in {BridgeP, Cons} \cup {Inner(i) : i \in 1..k} |->
               IF p[1] = "inner" THEN 1 ELSE 0]
    /\ closed = [c \in {BridgeP} \cup {Inner(i) : i \in 1..k} |-> 0]
    /\ got = (Cons :> <<>>)
    /\ ctxDone = FALSE
    /\ wg = 0
    /\ chanStream = [i \in 1..k |-> Inner(i)]
    /\ streamClosed = isClosed
    /\ panic = "none"
    /\ NoPool /\ NoLimiter /\ NoBroadcaster /\ NoBus /\ NoStructs /\ NoSubject

NextBridge ==
  \/ \E s \in Senders : \E r \in ReceiversOn(At(s).send) : Xfer(s, r)
  \/ \E p \in DOMAIN net : OnClosed(p)
  \/ \E p \in DOMAIN net : Quit(p)
  \/ \E p \in DOMAIN net : Exit(p)
  \/ \E p \in DOMAIN net : BridgeTake(p)
  \/ Cancel
  \/ \E p \in DOMAIN net : ConsumerStop(p)

SpecBridge == InitBridge /\ [][NextBridge]_vars

\* ------------------------------------------------------------ composition
\* All the stages in one network sharing the context:
\*   Generator -> SafePipeline -> Tee,
\*   out1 -> OrDone -> consumer,  Bridge(<-chan{out2}) -> consumer,
\* the outer channel of Bridge holding out2 and left open by its owner.
ChainProcs(values) ==
  [p \in {Gen, Stage, TeeP, OrDoneP, BridgeP, Cons, Cons2} |->
     CASE p = Gen -> NewGenerator(Gen, values)
       [] p = Stage -> NewProc("SafePipeline", Gen, Stage, NoChan, <<>>)
       [] p = TeeP -> NewProc("Tee", Stage, TeeP, Tee2, <<>>)
       [] p = OrDoneP -> NewProc("OrDone", TeeP, OrDoneP, NoChan, <<>>)
       [] p = BridgeP -> NewProc("Bridge", NoChan, BridgeP, NoChan, <<>>)
       [] p = Cons -> NewConsumer(OrDoneP)
       [] OTHER -> NewConsumer(BridgeP)]

InitChain ==
  \E values \in {Iota(m) : m \in 0..MaxChainLen} :
    /\ net = ChainProcs(values)
    /\ pc = [p \in DOMAIN ChainProcs(values) |->
               CASE p = Gen -> GeneratorStart(values)
                 [] p \in {OrDoneP, BridgeP} -> "select"
                 [] OTHER -> "range"]
    /\ val = [p \in DOMAIN ChainProcs(values) |-> 0]
    /\ idx = [p \in DOMAIN ChainProcs(values) |-> IF p = Gen THEN 1 ELSE 0]
    /\ closed = [c \in {Gen, Stage, TeeP, Tee2, OrDoneP, BridgeP} |-> 0]
    /\ got = [c \in {Cons, Cons2} |-> <<>>]
    /\ ctxDone = FALSE
    /\ wg = 0
    /\ chanStream = <<Tee2>>
    /\ streamClosed = FALSE
    /\ panic = "none"
    /\ NoPool /\ NoLimiter /\ NoBroadcaster /\ NoBus /\ NoStructs /\ NoSubject

\* ------------------------------------------------------------- WorkerPool
\* make(chan func(), 100)
JobsCap == 100

\* NewWorkerPool(w): start() adds w to the WaitGroup and starts w workers.
InitPool ==
  \E w \in 1..MaxPoolWorkers :
    /\ poolWorkers = w
    /\ jobs = <<>>
    /\ jobsClosed = FALSE
    /\ poolWg = w
    /\ wpc = [i \in 1..w |-> "idle"]
    /\ wjob = [i \in 1..w |-> 0]
    /\ submitted = 0
    /\ started = [j \in 1..MaxJobs |-> 0]
    /\ finished = [j \in 1..MaxJobs |-> 0]
    /\ closePc = "idle"
    /\ poolPanic = "none"
    /\ NoChannels /\ NoLimiter /\ NoBroadcaster /\ NoBus /\ NoStructs /\ NoSubject

\* A Submit that queues its job whether the queue is closed or not.
Submit_QueuesAfterClose ==
  /\ poolPanic = "none"
  /\ submitted < Len(started)
  /\ Len(jobs) < JobsCap
  /\ jobs' = Append(jobs, submitted + 1)
  /\ submitted' = submitted + 1
  /\ UNCHANGED <<poolWorkers, jobsClosed, poolWg, wpc, wjob, started, finished, closePc,
                 poolPanic>>
  /\ UNCHANGED notPool

\* A Submit that does not wait for room in the queue.
Submit_NoWaitForRoom ==
  /\ poolPanic = "none"
  /\ submitted < Len(started)
  /\ IF jobsClosed
     THEN poolPanic' = "send on closed channel" /\ UNCHANGED <<jobs, submitted>>
     ELSE /\ jobs' = Append(jobs, submitted + 1)
          /\ submitted' = submitted + 1
          /\ poolPanic' = poolPanic
  /\ UNCHANGED <<poolWorkers, jobsClosed, poolWg, wpc, wjob, started, finished, closePc>>
  /\ UNCHANGED notPool

\* Submit: p.jobs <- job.  It blocks while the queue is full, and panics on
\* a closed queue.  The jobs are numbered in the order they are submitted.
Submit ==
  /\ poolPanic = "none"
  /\ submitted < Len(started)
  /\ jobsClosed \/ Len(jobs) < JobsCap
  /\ IF jobsClosed
     THEN poolPanic' = "send on closed channel" /\ UNCHANGED <<jobs, submitted>>
     ELSE /\ jobs' = Append(jobs, submitted + 1)
          /\ submitted' = submitted + 1
          /\ poolPanic' = poolPanic
  /\ UNCHANGED <<poolWorkers, jobsClosed, poolWg, wpc, wjob, started, finished, closePc>>
  /\ UNCHANGED notPool

\* Close, first statement: close(p.jobs); the caller then waits in wg.Wait().
Close ==
  /\ poolPanic = "none"
  /\ IF jobsClosed
     THEN poolPanic' = "close of closed channel" /\ UNCHANGED <<jobsClosed, closePc>>
     ELSE jobsClosed' = TRUE /\ closePc' = "waiting" /\ poolPanic' = poolPanic
  /\ UNCHANGED <<poolWorkers, jobs, poolWg, wpc, wjob, submitted, started, finished>>
  /\ UNCHANGED notPool

\* Close, second statement: p.wg.Wait() returns once the counter is zero.
CloseReturn ==
  /\ poolPanic = "none"
  /\ closePc = "waiting"
  /\ poolWg = 0
  /\ closePc' = "returned"
  /\ UNCHANGED <<poolWorkers, jobs, jobsClosed, poolWg, wpc, wjob, submitted,
                 started, finished, poolPanic>>
  /\ UNCHANGED notPool

WorkerTake_GoJob(i) ==
  /\ poolPanic = "none"
  /\ wpc[i] = "idle"
  /\ jobs # <<>>
  /\ jobs' = Tail(jobs)
  /\ started' = [started EXCEPT ![Head(jobs)] = @ + 1]
  /\ UNCHANGED <<poolWorkers, jobsClosed, poolWg, wpc, wjob, submitted, finished,
                 closePc, poolPanic>>
  /\ UNCHANGED notPool

\* worker: for job := range p.jobs { job() } -- the receive and the call.
WorkerTake(i) ==
  /\ poolPanic = "none"
  /\ wpc[i] = "idle"
  /\ jobs # <<>>
  /\ jobs' = Tail(jobs)
  /\ wpc' = [wpc EXCEPT ![i] = "running"]
  /\ wjob' = [wjob EXCEPT ![i] = Head(jobs)]
  /\ started' = [started EXCEPT ![Head(jobs)] = @ + 1]
  /\ UNCHANGED <<poolWorkers, jobsClosed, poolWg, submitted, finished, closePc, poolPanic>>
  /\ UNCHANGED notPool

\* worker: job() returns, and the loop goes back to the receive.
WorkerFinish(i) ==
  /\ poolPanic = "none"
  /\ wpc[i] = "running"
  /\ finished' = [finished EXCEPT ![wjob[i]] = @ + 1]
  /\ wpc' = [wpc EXCEPT ![i] = "idle"]
  /\ wjob' = [wjob EXCEPT ![i] = 0]
  /\ UNCHANGED <<poolWorkers, jobs, jobsClosed, poolWg, submitted, started, closePc, poolPanic>>
  /\ UNCHANGED notPool

WorkerExit_NoDrain(i) ==
  /\ poolPanic = "none"
  /\ wpc[i] = "idle"
  /\ jobsClosed
  /\ wpc' = [wpc EXCEPT ![i] = "done"]
  /\ poolWg' = poolWg - 1
  /\ UNCHANGED <<poolWorkers, jobs, jobsClosed, wjob, submitted, started, finished,
                 closePc, poolPanic>>
  /\ UNCHANGED notPool

\* worker: the range ends when p.jobs is closed and drained; defer wg.Done().
WorkerExit(i) ==
  /\ poolPanic = "none"
  /\ wpc[i] = "idle"
  /\ jobs = <<>>
  /\ jobsClosed
  /\ wpc' = [wpc EXCEPT ![i] = "done"]
  /\ poolWg' = poolWg - 1
  /\ UNCHANGED <<poolWorkers, jobs, jobsClosed, wjob, submitted, started, finished,
                 closePc, poolPanic>>
  /\ UNCHANGED notPool

\* The steps of the pool's goroutines and of a caller waiting in Close.
PoolStep ==
  \/ \E i \in DOMAIN wpc : WorkerTake(i)
  \/ \E i \in DOMAIN wpc : WorkerFinish(i)
  \/ \E i \in DOMAIN wpc : WorkerExit(i)
  \/ CloseReturn

NextPool ==
  \/ Submit
  \/ Close
  \/ CloseReturn
  \/ \E i \in DOMAIN wpc : WorkerTake(i)
  \/ \E i \in DOMAIN wpc : WorkerFinish(i)
  \/ \E i \in DOMAIN wpc : WorkerExit(i)

\* Every job returns, and every runnable goroutine is eventually scheduled.
SpecPool == InitPool /\ [][NextPool]_vars /\ WF_vars(PoolStep)

\* A pool whose callers submit more jobs than the queue holds, up to
\* JobsCap + MaxOver jobs in all, taken at the point where n of the Submit
\* calls have completed and no worker has been scheduled yet.
InitPoolFull ==
  \E w \in 1..MaxFullWorkers, n \in (JobsCap - 1)..JobsCap :
    /\ poolWorkers = w
    /\ jobs = [j \in 1..n |-> j]
    /\ jobsClosed = FALSE
    /\ poolWg = w
    /\ wpc = [i \in 1..w |-> "idle"]
    /\ wjob = [i \in 1..w |-> 0]
    /\ submitted = n
    /\ started = [j \in 1..(JobsCap + MaxOver) |-> 0]
    /\ finished = [j \in 1..(JobsCap + MaxOver) |-> 0]
    /\ closePc = "idle"
    /\ poolPanic = "none"
    /\ NoChannels /\ NoLimiter /\ NoBroadcaster /\ NoBus /\ NoStructs /\ NoSubject

SpecPoolFull == InitPoolFull /\ [][NextPool]_vars

\* ------------------------------------------------------------ RateLimiter
\* NewRateLimiter(c, rate): the bucket is filled with c tokens and the
\* refill goroutine is started.
InitLimiter ==
  \E c \in 0..MaxCap :
    /\ rlCap = c
    /\ tokens = c
    /\ stopClosed = FALSE
    /\ refillPc = "select"
    /\ waiting = <<>>
    /\ rlLog = <<>>
    /\ rlPanic = "none"
    /\ NoChannels /\ NoPool /\ NoBroadcaster /\ NoBus /\ NoStructs /\ NoSubject

\* What is followed of the calls and ticks: the first MaxLog of them.
Logged(es) ==
  IF Len(rlLog) + Len(es) <= MaxLog THEN rlLog \o es
  ELSE SubSeq(rlLog \o es, 1, MaxLog)

\* The callers that may be blocked in Wait.
Callers == 1..MaxWaiting
Blocked == {waiting[k] : k \in DOMAIN waiting}

\* A refill that does not look at the room left in the bucket.
Tick_NoRoomCheck ==
  /\ rlPanic = "none"
  /\ refillPc = "select"
  /\ IF waiting # <<>>
     THEN tokens' = tokens /\ waiting' = Tail(waiting)
          /\ rlLog' = Logged(<<"tick", "W">>)
     ELSE tokens' = tokens + 1 /\ waiting' = waiting /\ rlLog' = Logged(<<"tick">>)
  /\ UNCHANGED <<rlCap, stopClosed, refillPc, rlPanic>>
  /\ UNCHANGED notLimiter

\* A refill that serves the caller who blocked last.
Tick_ServesNewest ==
  /\ rlPanic = "none"
  /\ refillPc = "select"
  /\ IF waiting # <<>>
     THEN tokens' = tokens /\ waiting' = SubSeq(waiting, 1, Len(waiting) - 1)
          /\ rlLog' = Logged(<<"tick", "W">>)
     ELSE IF tokens < rlCap
          THEN tokens' = tokens + 1 /\ waiting' = waiting
               /\ rlLog' = Logged(<<"tick">>)
          ELSE tokens' = tokens /\ waiting' = waiting /\ rlLog' = Logged(<<"tick">>)
  /\ UNCHANGED <<rlCap, stopClosed, refillPc, rlPanic>>
  /\ UNCHANGED notLimiter

\* A refill that adds two tokens when there is room for them.
Tick_TwoTokens ==
  /\ rlPanic = "none"
  /\ refillPc = "select"
  /\ IF waiting # <<>>
     THEN tokens' = tokens /\ waiting' = Tail(waiting)
          /\ rlLog' = Logged(<<"tick", "W">>)
     ELSE IF tokens < rlCap
          THEN tokens' = (IF tokens + 2 <= rlCap THEN tokens + 2 ELSE tokens + 1)
               /\ waiting' = waiting /\ rlLog' = Logged(<<"tick">>)
          ELSE tokens' = tokens /\ waiting' = waiting /\ rlLog' = Logged(<<"tick">>)
  /\ UNCHANGED <<rlCap, stopClosed, refillPc, rlPanic>>
  /\ UNCHANGED notLimiter

\* The refill goroutine, case <-ticker.C: a send that does not block.  With
\* callers blocked in Wait (the bucket is empty then) the token goes to the
\* one who blocked first; otherwise it goes in the bucket if there is room
\* and is dropped if there is none.
Tick ==
  /\ rlPanic = "none"
  /\ refillPc = "select"
  /\ IF waiting # <<>>
     THEN tokens' = tokens /\ waiting' = Tail(waiting)
          /\ rlLog' = Logged(<<"tick", "W">>)
     ELSE IF tokens < rlCap
          THEN tokens' = tokens + 1 /\ waiting' = waiting
               /\ rlLog' = Logged(<<"tick">>)
          ELSE tokens' = tokens /\ waiting' = waiting /\ rlLog' = Logged(<<"tick">>)
  /\ UNCHANGED <<rlCap, stopClosed, refillPc, rlPanic>>
  /\ UNCHANGED notLimiter

\* The refill goroutine, case <-rl.stop: return.
RefillStop ==
  /\ rlPanic = "none"
  /\ refillPc = "select"
  /\ stopClosed
  /\ refillPc' = "done"
  /\ UNCHANGED <<rlCap, tokens, stopClosed, waiting, rlLog, rlPanic>>
  /\ UNCHANGED notLimiter

\* An Allow that refuses the last token of the bucket.
Allow_RefusesLast ==
  /\ rlPanic = "none"
  /\ IF tokens > 1
     THEN tokens' = tokens - 1 /\ rlLog' = Logged(<<"T">>)
     ELSE tokens' = tokens /\ rlLog' = Logged(<<"F">>)
  /\ UNCHANGED <<rlCap, stopClosed, refillPc, waiting, rlPanic>>
  /\ UNCHANGED notLimiter

\* An Allow that leaves the token it found in the bucket.
Allow_NoTake ==
  /\ rlPanic = "none"
  /\ tokens' = tokens
  /\ rlLog' = Logged(<<IF tokens > 0 THEN "T" ELSE "F">>)
  /\ UNCHANGED <<rlCap, stopClosed, refillPc, waiting, rlPanic>>
  /\ UNCHANGED notLimiter

\* Allow: a receive that does not block.
Allow ==
  /\ rlPanic = "none"
  /\ IF tokens > 0
     THEN tokens' = tokens - 1 /\ rlLog' = Logged(<<"T">>)
     ELSE tokens' = tokens /\ rlLog' = Logged(<<"F">>)
  /\ UNCHANGED <<rlCap, stopClosed, refillPc, waiting, rlPanic>>
  /\ UNCHANGED notLimiter

\* A Wait that returns without a token when the limiter is closed.
WaitBlock_RacesStop(c) ==
  /\ rlPanic = "none"
  /\ tokens = 0
  /\ c \notin Blocked
  /\ waiting' = IF stopClosed THEN waiting ELSE Append(waiting, c)
  /\ rlLog' = IF stopClosed THEN Logged(<<"W">>) ELSE rlLog
  /\ UNCHANGED <<rlCap, tokens, stopClosed, refillPc, rlPanic>>
  /\ UNCHANGED notLimiter

\* Caller c calls Wait and finds the bucket empty: it blocks in <-rl.tokens,
\* behind the callers already blocked there.
WaitBlock(c) ==
  /\ rlPanic = "none"
  /\ tokens = 0
  /\ c \notin Blocked
  /\ waiting' = Append(waiting, c)
  /\ UNCHANGED <<rlCap, tokens, stopClosed, refillPc, rlLog, rlPanic>>
  /\ UNCHANGED notLimiter

\* Wait is called and finds a token: it returns with it.
WaitReturn ==
  /\ rlPanic = "none"
  /\ tokens > 0
  /\ tokens' = tokens - 1
  /\ rlLog' = Logged(<<"W">>)
  /\ UNCHANGED <<rlCap, stopClosed, refillPc, waiting, rlPanic>>
  /\ UNCHANGED notLimiter

\* Close: close(rl.stop); a second call panics.
LimiterClose ==
  /\ rlPanic = "none"
  /\ IF stopClosed
     THEN rlPanic' = "close of closed channel" /\ stopClosed' = stopClosed
     ELSE rlPanic' = rlPanic /\ stopClosed' = TRUE
  /\ UNCHANGED <<rlCap, tokens, refillPc, waiting, rlLog>>
  /\ UNCHANGED notLimiter

NextLimiter ==
  \/ Tick
  \/ RefillStop
  \/ Allow
  \/ \E c \in Callers : WaitBlock(c)
  \/ WaitReturn
  \/ LimiterClose

\* The ticker fires again and again and the refill goroutine is scheduled.
SpecLimiter ==
  InitLimiter /\ [][NextLimiter]_vars /\ WF_vars(Tick) /\ WF_vars(RefillStop)

\* ------------------------------------------------------------ Broadcaster
InputCap == 10      \* make(chan T, 10) in NewBroadcaster
OutboxCap == 10     \* make(chan T, 10) in Subscribe

Outboxes == 1..MaxSubs

\* NewBroadcaster(): no subscriber, an empty inbox, the dispatcher started.
InitBroadcaster ==
  /\ bDone = FALSE
  /\ input = <<>>
  /\ subscribers = <<>>
  /\ outbox = [c \in Outboxes |-> <<>>]
  /\ outClosed = [c \in Outboxes |-> 0]
  /\ recvd = [c \in Outboxes |-> <<>>]
  /\ bpc = "select"
  /\ bval = 0 /\ bi = 0 /\ bn = 0
  /\ sends = 0
  /\ lateSends = 0
  /\ accepted = <<>>
  /\ dispatched = <<>>
  /\ dropped = [c \in Outboxes |-> <<>>]
  /\ bPanic = "none"
  /\ NoChannels /\ NoPool /\ NoLimiter /\ NoBus /\ NoStructs /\ NoSubject

\* A run that takes the value that entered the inbox last.
RunTake_Newest ==
  /\ bPanic = "none"
  /\ bpc = "select"
  /\ input # <<>>
  /\ bval' = input[Len(input)]
  /\ input' = SubSeq(input, 1, Len(input) - 1)
  /\ bpc' = "rlock"
  /\ UNCHANGED <<bDone, subscribers, outbox, outClosed, recvd, bi, bn, sends, lateSends,
                 accepted, dispatched, dropped, bPanic>>
  /\ UNCHANGED notBroadcaster

\* run, case val := <-b.input.
RunTake ==
  /\ bPanic = "none"
  /\ bpc = "select"
  /\ input # <<>>
  /\ bval' = Head(input)
  /\ input' = Tail(input)
  /\ bpc' = "rlock"
  /\ UNCHANGED <<bDone, subscribers, outbox, outClosed, recvd, bi, bn, sends, lateSends,
                 accepted, dispatched, dropped, bPanic>>
  /\ UNCHANGED notBroadcaster

\* A broadcast whose loop stops after the first subscriber.
BroadcastBegin_FirstOnly ==
  /\ bPanic = "none"
  /\ bpc = "rlock"
  /\ dispatched' = Append(dispatched, [v |-> bval, n |-> Len(subscribers)])
  /\ IF subscribers = <<>>
     THEN bpc' = "select" /\ bi' = 0 /\ bn' = 0 /\ bval' = 0
     ELSE bpc' = "broadcast" /\ bi' = 1 /\ bn' = 1 /\ bval' = bval
  /\ UNCHANGED <<bDone, input, subscribers, outbox, outClosed, recvd, sends,
                 lateSends, accepted, dropped, bPanic>>
  /\ UNCHANGED notBroadcaster

\* broadcast: b.mu.RLock() and the start of the loop over b.subscribers, which
\* is read once; with no subscriber the loop is over and the lock released.
BroadcastBegin ==
  /\ bPanic = "none"
  /\ bpc = "rlock"
  /\ dispatched' = Append(dispatched, [v |-> bval, n |-> Len(subscribers)])
  /\ IF subscribers = <<>>
     THEN bpc' = "select" /\ bi' = 0 /\ bn' = 0 /\ bval' = 0
     ELSE bpc' = "broadcast" /\ bi' = 1 /\ bn' = Len(subscribers) /\ bval' = bval
  /\ UNCHANGED <<bDone, input, subscribers, outbox, outClosed, recvd, sends, lateSends,
                 accepted, dropped, bPanic>>
  /\ UNCHANGED notBroadcaster

\* A broadcast whose send has no default case: it waits for room.
Offer_Blocking ==
  /\ bPanic = "none"
  /\ bpc = "broadcast"
  /\ LET ch == subscribers[bi] IN
       /\ Len(outbox[ch]) < OutboxCap
       /\ outbox' = [outbox EXCEPT ![ch] = Append(@, bval)]
  /\ IF bi < bn
     THEN bi' = bi + 1 /\ UNCHANGED <<bpc, bn, bval>>
     ELSE bpc' = "select" /\ bi' = 0 /\ bn' = 0 /\ bval' = 0
  /\ UNCHANGED <<bDone, input, subscribers, outClosed, recvd, sends, lateSends,
                 accepted, dispatched, dropped, bPanic>>
  /\ UNCHANGED notBroadcaster

\* broadcast, one turn of the loop: select { case ch <- val: default: }; after
\* the last turn the lock is released and run is back at its select.
Offer ==
  /\ bPanic = "none"
  /\ bpc = "broadcast"
  /\ LET ch == subscribers[bi] IN
       IF outClosed[ch] > 0
       THEN /\ bPanic' = "send on closed channel"
            /\ UNCHANGED <<outbox, dropped, bpc, bi, bn, bval>>
       ELSE /\ bPanic' = bPanic
            /\ IF Len(outbox[ch]) < OutboxCap
               THEN /\ outbox' = [outbox EXCEPT ![ch] = Append(@, bval)]
                    /\ dropped' = dropped
               ELSE /\ outbox' = outbox
                    /\ dropped' = [dropped EXCEPT
                         ![ch] = Append(@, [v |-> bval, len |-> Len(outbox[ch])])]
            /\ IF bi < bn
               THEN bi' = bi + 1 /\ UNCHANGED <<bpc, bn, bval>>
               ELSE bpc' = "select" /\ bi' = 0 /\ bn' = 0 /\ bval' = 0
  /\ UNCHANGED <<bDone, input, subscribers, outClosed, recvd, sends, lateSends, accepted,
                 dispatched>>
  /\ UNCHANGED notBroadcaster

\* A run that returns on cancellation without calling closeAll.
RunDone_NoCloseAll ==
  /\ bPanic = "none"
  /\ bpc = "select"
  /\ bDone
  /\ bpc' = "done" /\ bi' = 0 /\ bn' = 0
  /\ UNCHANGED <<bDone, input, subscribers, outbox, outClosed, recvd, bval,
                 sends, lateSends, accepted, dispatched, dropped, bPanic>>
  /\ UNCHANGED notBroadcaster

\* run, case <-b.ctx.Done(): closeAll takes b.mu.Lock() and starts its loop
\* over b.subscribers; with no subscriber run returns at once.
RunDone ==
  /\ bPanic = "none"
  /\ bpc = "select"
  /\ bDone
  /\ IF subscribers = <<>>
     THEN bpc' = "done" /\ bi' = 0 /\ bn' = 0
     ELSE bpc' = "closeAll" /\ bi' = 1 /\ bn' = Len(subscribers)
  /\ UNCHANGED <<bDone, input, subscribers, outbox, outClosed, recvd, bval,
                 sends, lateSends, accepted, dispatched, dropped, bPanic>>
  /\ UNCHANGED notBroadcaster

\* A closeAll after which run goes back to its select.
CloseOutbox_RunGoesOn ==
  /\ bPanic = "none"
  /\ bpc = "closeAll"
  /\ LET ch == subscribers[bi] IN
       IF outClosed[ch] > 0
       THEN /\ bPanic' = "close of closed channel"
            /\ UNCHANGED <<outClosed, bpc, bi, bn>>
       ELSE /\ bPanic' = bPanic
            /\ outClosed' = [outClosed EXCEPT ![ch] = @ + 1]
            /\ IF bi < bn
               THEN bi' = bi + 1 /\ UNCHANGED <<bpc, bn>>
               ELSE bpc' = "select" /\ bi' = 0 /\ bn' = 0
  /\ UNCHANGED <<bDone, input, subscribers, outbox, recvd, bval, sends, lateSends,
                 accepted, dispatched, dropped>>
  /\ UNCHANGED notBroadcaster

\* closeAll, one turn of the loop: close(ch); after the last turn the lock is
\* released and run returns.
CloseOutbox ==
  /\ bPanic = "none"
  /\ bpc = "closeAll"
  /\ LET ch == subscribers[bi] IN
       IF outClosed[ch] > 0
       THEN /\ bPanic' = "close of closed channel"
            /\ UNCHANGED <<outClosed, bpc, bi, bn>>
       ELSE /\ bPanic' = bPanic
            /\ outClosed' = [outClosed EXCEPT ![ch] = @ + 1]
            /\ IF bi < bn
               THEN bi' = bi + 1 /\ UNCHANGED <<bpc, bn>>
               ELSE bpc' = "done" /\ bi' = 0 /\ bn' = 0
  /\ UNCHANGED <<bDone, input, subscribers, outbox, recvd, bval, sends, lateSends,
                 accepted, dispatched, dropped>>
  /\ UNCHANGED notBroadcaster

\* Subscribe: under b.mu.Lock(), which waits while broadcast or closeAll holds
\* the lock, a new outbox is appended to b.subscribers.
Subscribe ==
  /\ bPanic = "none"
  /\ bpc \notin {"broadcast", "closeAll"}
  /\ Len(subscribers) < MaxSubs
  /\ sends <= MaxLate
  /\ subscribers' = Append(subscribers, Len(subscribers) + 1)
  /\ UNCHANGED <<bDone, input, outbox, outClosed, recvd, bpc, bval, bi, bn,
                 sends, lateSends, accepted, dispatched, dropped, bPanic>>
  /\ UNCHANGED notBroadcaster

\* Send(val): select { case b.input <- val: case <-b.ctx.Done(): }.  The call
\* waits while the inbox is full and the context is not cancelled; when both
\* cases are ready either is taken.
Send(taken) ==
  /\ bPanic = "none"
  /\ sends < MaxSend
  /\ bDone => lateSends < MaxAfterClose
  /\ sends' = sends + 1
  /\ lateSends' = IF bDone THEN lateSends + 1 ELSE lateSends
  /\ IF taken
     THEN /\ Len(input) < InputCap
          /\ input' = Append(input, sends + 1)
          /\ accepted' = Append(accepted, sends + 1)
     ELSE /\ bDone
          /\ UNCHANGED <<input, accepted>>
  /\ UNCHANGED <<bDone, subscribers, outbox, outClosed, recvd, bpc, bval, bi,
                 bn, dispatched, dropped, bPanic>>
  /\ UNCHANGED notBroadcaster

\* A Close that also closes the outboxes itself, as ChannelEventBus.Close does.
BroadcasterClose_ClosesOutboxes ==
  /\ bPanic = "none"
  /\ bDone' = TRUE
  /\ outClosed' = [c \in Outboxes |->
                     IF c <= Len(subscribers) THEN outClosed[c] + 1
                     ELSE outClosed[c]]
  /\ UNCHANGED <<input, subscribers, outbox, recvd, bpc, bval, bi,
                 bn, sends, lateSends, accepted, dispatched, dropped, bPanic>>
  /\ UNCHANGED notBroadcaster

\* Close: b.cancel(), which may be called any number of times.
BroadcasterClose ==
  /\ bPanic = "none"
  /\ bDone' = TRUE
  /\ UNCHANGED <<input, subscribers, outbox, outClosed, recvd, bpc, bval, bi,
                 bn, sends, lateSends, accepted, dispatched, dropped, bPanic>>
  /\ UNCHANGED notBroadcaster

RECURSIVE ReceivedUpTo(_)
ReceivedUpTo(c) == IF c = 0 THEN 0 ELSE Len(recvd[c]) + ReceivedUpTo(c - 1)
Received == ReceivedUpTo(MaxSubs)

\* The consumer of outbox ch receives the next value waiting in it.
Receive(ch) ==
  /\ bPanic = "none"
  /\ ch \in 1..Len(subscribers)
  /\ outbox[ch] # <<>>
  /\ Received < MaxTake
  /\ recvd' = [recvd EXCEPT ![ch] = Append(@, Head(outbox[ch]))]
  /\ outbox' = [outbox EXCEPT ![ch] = Tail(@)]
  /\ UNCHANGED <<bDone, input, subscribers, outClosed, bpc, bval, bi, bn,
                 sends, lateSends, accepted, dispatched, dropped, bPanic>>
  /\ UNCHANGED notBroadcaster

\* A step of the dispatcher goroutine.
RunStep == RunTake \/ BroadcastBegin \/ Offer \/ RunDone \/ CloseOutbox

NextBroadcaster ==
  \/ RunTake
  \/ BroadcastBegin
  \/ Offer
  \/ RunDone
  \/ CloseOutbox
  \/ Subscribe
  \/ \E taken \in BOOLEAN : Send(taken)
  \/ BroadcasterClose
  \/ \E ch \in Outboxes : Receive(ch)

SpecBroadcaster == InitBroadcaster /\ [][NextBroadcaster]_vars /\ WF_vars(RunStep)

\* -------------------------------------------------------- ChannelEventBus
EventTypes == {"user.event", "order.event"}
BusChans == 1..MaxBusSubs
BusChanCap == 10    \* make(chan Event, 10) in Subscribe

\* the channels made so far
BusMade == UNION {{busSubscribers[t][k] : k \in 1..Len(busSubscribers[t])}
                    : t \in EventTypes}

\* sync.RWMutex: Publish holds b.mu for reading, together with other
\* Publish calls; Subscribe and Close hold it alone.
BusReading == {k \in DOMAIN busCalls : busCalls[k].live}
BusLockFree == BusReading = {}

\* NewChannelEventBus(): an empty map of subscribers.
InitBus ==
  /\ busSubscribers = [t \in EventTypes |-> <<>>]
  /\ busBuf = [c \in BusChans |-> <<>>]
  /\ busClosed = [c \in BusChans |-> 0]
  /\ busGot = [c \in BusChans |-> <<>>]
  /\ busPublished = 0
  /\ busCalls = <<>>
  /\ busCloses = 0
  /\ busPanic = "none"
  /\ NoChannels /\ NoPool /\ NoLimiter /\ NoBroadcaster /\ NoStructs /\ NoSubject

\* Subscribe(eventType), under b.mu.Lock(): a new channel appended to the
\* type's list.
BusSubscribe(t) ==
  /\ busPanic = "none"
  /\ BusLockFree
  /\ Cardinality(BusMade) < MaxBusSubs
  /\ busSubscribers' =
       [busSubscribers EXCEPT ![t] = Append(@, Cardinality(BusMade) + 1)]
  /\ UNCHANGED <<busBuf, busClosed, busGot, busPublished, busCalls, busCloses, busPanic>>
  /\ UNCHANGED notBus

\* Publish(event): b.mu.RLock(); channels := b.subscribers[event.Type].
\* Event number k of type t is <<t, k>>.
BusPublish(t) ==
  /\ busPanic = "none"
  /\ busPublished < MaxPublish
  /\ busPublished' = busPublished + 1
  /\ busCalls' = Append(busCalls, [type |-> t, rest |-> busSubscribers[t], live |-> TRUE])
  /\ UNCHANGED <<busSubscribers, busBuf, busClosed, busGot, busCloses, busPanic>>
  /\ UNCHANGED notBus

\* Publish, one turn of its loop: select { case ch <- event: default: } on
\* the next channel: the event is queued if there is room, and skipped if
\* not; on a closed channel the send panics.
BusPublishSend(k) ==
  /\ busPanic = "none"
  /\ k \in BusReading
  /\ busCalls[k].rest # <<>>
  /\ LET c == Head(busCalls[k].rest) IN
     IF busClosed[c] > 0
     THEN busPanic' = "send on closed channel" /\ UNCHANGED <<busBuf, busCalls>>
     ELSE /\ busPanic' = busPanic
          /\ busBuf' = IF Len(busBuf[c]) < BusChanCap
                       THEN [busBuf EXCEPT ![c] = Append(@, <<busCalls[k].type, k>>)]
                       ELSE busBuf
          /\ busCalls' = [busCalls EXCEPT ![k].rest = Tail(@)]
  /\ UNCHANGED <<busSubscribers, busClosed, busGot, busPublished, busCloses>>
  /\ UNCHANGED notBus

\* Publish returns after the last channel: defer b.mu.RUnlock().
BusPublishReturn(k) ==
  /\ busPanic = "none"
  /\ k \in BusReading
  /\ busCalls[k].rest = <<>>
  /\ busCalls' = [busCalls EXCEPT ![k].live = FALSE]
  /\ UNCHANGED <<busSubscribers, busBuf, busClosed, busGot, busPublished, busCloses,
                 busPanic>>
  /\ UNCHANGED notBus

\* The orders in which a range over the map b.subscribers can visit its keys.
BusKeyOrders ==
  {o \in [1..Cardinality(EventTypes) -> EventTypes] :
     \A i, j \in DOMAIN o : o[i] = o[j] => i = j}

\* the channels of the map, in the order Close meets them when the keys come
\* in order o
RECURSIVE BusChannelsIn(_)
BusChannelsIn(o) ==
  IF o = <<>> THEN <<>> ELSE busSubscribers[Head(o)] \o BusChannelsIn(Tail(o))

\* close(ch) for each channel of chans in turn, cl counting the closes: the
\* loop stops with a panic at the first channel already closed.
RECURSIVE CloseEach(_, _)
CloseEach(chans, cl) ==
  IF chans = <<>> THEN [closed |-> cl, panic |-> "none"]
  ELSE IF cl[Head(chans)] > 0
       THEN [closed |-> cl, panic |-> "close of closed channel"]
       ELSE CloseEach(Tail(chans), [cl EXCEPT ![Head(chans)] = @ + 1])

\* Close(), under b.mu.Lock(): close(ch) for every channel of the map, the
\* keys in an order of Go's choosing; the map is left as it is.
BusClose ==
  /\ busPanic = "none"
  /\ BusLockFree
  /\ busCloses < MaxBusCloses
  /\ busCloses' = busCloses + 1
  /\ \E o \in BusKeyOrders :
       LET after == CloseEach(BusChannelsIn(o), busClosed) IN
       /\ busClosed' = after.closed
       /\ busPanic' = IF after.panic = "none" THEN busPanic ELSE after.panic
  /\ UNCHANGED <<busSubscribers, busBuf, busGot, busPublished, busCalls>>
  /\ UNCHANGED notBus

\* The listener of channel c receives the next event waiting in it.
BusReceive(c) ==
  /\ busPanic = "none"
  /\ c \in BusMade
  /\ busBuf[c] # <<>>
  /\ busGot' = [busGot EXCEPT ![c] = Append(@, Head(busBuf[c]))]
  /\ busBuf' = [busBuf EXCEPT ![c] = Tail(@)]
  /\ UNCHANGED <<busSubscribers, busClosed, busPublished, busCalls, busCloses, busPanic>>
  /\ UNCHANGED notBus

NextBus ==
  \/ \E t \in EventTypes : BusSubscribe(t)
  \/ \E t \in EventTypes : BusPublish(t)
  \/ \E k \in DOMAIN busCalls : BusPublishSend(k)
  \/ \E k \in DOMAIN busCalls : BusPublishReturn(k)
  \/ BusClose
  \/ \E c \in BusChans : BusReceive(c)

SpecBus == InitBus /\ [][NextBus]_vars

\* A step of the goroutines themselves (not of the context's owner, nor a
\* consumer walking away).
GoStep ==
  \/ \E s \in Senders : \E r \in ReceiversOn(At(s).send) : Xfer(s, r)
  \/ \E p \in DOMAIN net : OnClosed(p)
  \/ \E p \in DOMAIN net : Quit(p)
  \/ \E p \in DOMAIN net : Exit(p)
  \/ \E p \in DOMAIN net : WgWait(p)
  \/ \E p \in DOMAIN net : BridgeTake(p)

\* Every network above, under one context; each runnable goroutine is
\* eventually scheduled.
\* (Cancellation does not look at the values: the Generators are given
\* 1..m, and the wider networks are kept small.)
InitCancel ==
  \/ InitPipeline /\ net[Gen].values \in {Iota(m) : m \in 0..MaxLen}
  \/ InitTee /\ net[Gen].values \in {Iota(m) : m \in 0..MaxLen}
  \/ InitOrDone /\ net[Gen].values \in {Iota(m) : m \in 0..MaxLen}
  \/ InitFan /\ wg + Len(net[Gen].values) <= MaxFanLen + 1
  \/ InitBridge /\ Len(chanStream) <= MaxChainLen
  \/ InitChain

NextCancel ==
  \/ \E s \in Senders : \E r \in ReceiversOn(At(s).send) : Xfer(s, r)
  \/ \E p \in DOMAIN net : OnClosed(p)
  \/ \E p \in DOMAIN net : Quit(p)
  \/ \E p \in DOMAIN net : Exit(p)
  \/ \E p \in DOMAIN net : WgWait(p)
  \/ \E p \in DOMAIN net : BridgeTake(p)
  \/ Cancel
  \/ \E p \in DOMAIN net : ConsumerStop(p)

SpecCancel == InitCancel /\ [][NextCancel]_vars /\ WF_vars(GoStep)

\* --------------------------------------------------- a producer alone
\* Generator(values...) or GenerateNumbers(start, end), read by a consumer
\* that may stop: Gen -> Cons.
GeneratorCalls ==
  {<<"Generator", values>> : values \in Inputs}
    \cup {<<"GenerateNumbers", NumbersFrom(start, end)>> :
             start \in 1..MaxVal, end \in 0..MaxLen}

InitGenerator ==
  \E call \in GeneratorCalls :
    /\ net = (Gen :> NewProc(call[1], NoChan, Gen, NoChan, call[2]))
             @@ (Cons :> NewConsumer(Gen))
    /\ pc = (Gen :> GeneratorStart(call[2])) @@ (Cons :> "range")
    /\ val = (Gen :> 0) @@ (Cons :> 0)
    /\ idx = (Gen :> 1) @@ (Cons :> 0)
    /\ closed = (Gen :> 0)
    /\ got = (Cons :> <<>>)
    /\ ctxDone = FALSE
    /\ wg = 0
    /\ chanStream = <<>>
    /\ streamClosed = FALSE
    /\ panic = "none"
    /\ NoPool /\ NoLimiter /\ NoBroadcaster /\ NoBus /\ NoStructs /\ NoSubject

NextGenerator ==
  \/ \E s \in Senders : \E r \in ReceiversOn(At(s).send) : Xfer(s, r)
  \/ \E p \in DOMAIN net : OnClosed(p)
  \/ \E p \in DOMAIN net : Quit(p)
  \/ \E p \in DOMAIN net : Exit(p)
  \/ Cancel
  \/ \E p \in DOMAIN net : ConsumerStop(p)

SpecGenerator == InitGenerator /\ [][NextGenerator]_vars /\ WF_vars(GoStep)

\* ------------------------------------------- a source the caller feeds
\* A stage or OrDone reading a channel of the caller's, which the caller may
\* never close, and read by a consumer that may stop:
\* Src -> SafePipeline | Square | worker | OrDone -> Cons.
InitSource ==
  \E values \in Inputs, feeder \in {"Feeder", "OpenFeeder"},
     kind \in {"SafePipeline", "Square", "worker", "OrDone"} :
    LET mid == IF kind = "OrDone" THEN OrDoneP ELSE Stage IN
    /\ net = (Src :> NewProc(feeder, NoChan, Src, NoChan, values))
             @@ (mid :> NewProc(kind, Src, mid, NoChan, <<>>))
             @@ (Cons :> NewConsumer(mid))
    /\ pc = (Src :> FeederStart(feeder, values))
            @@ (mid :> IF kind = "OrDone" THEN "select" ELSE "range")
            @@ (Cons :> "range")
    /\ val = [p \in {Src, mid, Cons} |-> 0]
    /\ idx = [p \in {Src, mid, Cons} |-> IF p = Src THEN 1 ELSE 0]
    /\ closed = [c \in {Src, mid} |-> 0]
    /\ got = (Cons :> <<>>)
    /\ ctxDone = FALSE
    /\ wg = 0
    /\ chanStream = <<>>
    /\ streamClosed = FALSE
    /\ panic = "none"
    /\ NoPool /\ NoLimiter /\ NoBroadcaster /\ NoBus /\ NoStructs /\ NoSubject

NextSource ==
  \/ \E s \in Senders : \E r \in ReceiversOn(At(s).send) : Xfer(s, r)
  \/ \E p \in DOMAIN net : OnClosed(p)
  \/ \E p \in DOMAIN net : Quit(p)
  \/ \E p \in DOMAIN net : Exit(p)
  \/ Cancel
  \/ \E p \in DOMAIN net : ConsumerStop(p)

SpecSource == InitSource /\ [][NextSource]_vars /\ WF_vars(GoStep)

\* ------------------------------------- Bridge over sources the caller feeds
\* Bridge reading inner channels that their owner writes to and may never
\* close, from an outer channel that may never be closed either.
InitBridgeOpen ==
  \E k \in 0..MaxInner, lens \in [1..MaxInner -> 0..MaxInnerLen],
     feeder \in {"Feeder", "OpenFeeder"}, isClosed \in BOOLEAN :
    /\ \A i \in (k + 1)..MaxInner : lens[i] = 0
    /\ SumTo(lens, MaxInner) <= MaxInnerLen
    /\ net = [p \in {BridgeP, Cons} \cup {Inner(i) : i \in 1..k} |->
               CASE p = BridgeP -> NewProc("Bridge", NoChan, BridgeP, NoChan, <<>>)
                 [] p = Cons -> NewConsumer(BridgeP)
                 [] OTHER -> NewProc(feeder, NoChan, p, NoChan,
                                     InnerValues(p[2], lens[p[2]]))]
    /\ pc = [p \in {BridgeP, Cons} \cup {Inner(i) : i \in 1..k} |->
               CASE p = BridgeP -> "select"
                 [] p = Cons -> "range"
                 [] OTHER -> FeederStart(feeder, InnerValues(p[2], lens[p[2]]))]
    /\ val = [p \in {BridgeP, Cons} \cup {Inner(i) : i \in 1..k} |-> 0]
    /\ idx = [p \in {BridgeP, Cons} \cup {Inner(i) : i \in 1..k} |->
               IF p[1] = "inner" THEN 1 ELSE 0]
    /\ closed = [c \in {BridgeP} \cup {Inner(i) : i \in 1..k} |-> 0]
    /\ got = (Cons :> <<>>)
    /\ ctxDone = FALSE
    /\ wg = 0
    /\ chanStream = [i \in 1..k |-> Inner(i)]
    /\ streamClosed = isClosed
    /\ panic = "none"
    /\ NoPool /\ NoLimiter /\ NoBroadcaster /\ NoBus /\ NoStructs /\ NoSubject

SpecBridgeOpen == InitBridgeOpen /\ [][NextBridge]_vars /\ WF_vars(GoStep)

\* -------------------------------------------------------- Stack and Queue
\* (src/pkg/go124/generics.go)  The calls are followed up to MaxOps of them.
Returned(op, v, ok) == [op |-> op, v |-> v, ok |-> ok]

InitStack ==
  /\ stack = <<>> /\ stackLog = <<>> /\ items = <<>> /\ queueLog = <<>>
  /\ NoChannels /\ NoPool /\ NoLimiter /\ NoBroadcaster /\ NoBus /\ NoSubject

\* Push: *s = append(*s, v)
Push(v) ==
  /\ Len(stackLog) < MaxOps
  /\ stack' = Append(stack, v)
  /\ stackLog' = Append(stackLog, Returned("Push", v, TRUE))
  /\ UNCHANGED <<items, queueLog>>
  /\ UNCHANGED notStructs

\* A Pop that takes the element at the bottom.
Pop_Bottom ==
  /\ Len(stackLog) < MaxOps
  /\ IF Len(stack) = 0
     THEN stack' = stack /\ stackLog' = Append(stackLog, Returned("Pop", 0, FALSE))
     ELSE /\ stack' = Tail(stack)
          /\ stackLog' = Append(stackLog, Returned("Pop", Head(stack), TRUE))
  /\ UNCHANGED <<items, queueLog>>
  /\ UNCHANGED notStructs

\* Pop: the zero value and false on an empty stack; else the last element,
\* which is cut off the slice.
Pop ==
  /\ Len(stackLog) < MaxOps
  /\ IF Len(stack) = 0
     THEN stack' = stack /\ stackLog' = Append(stackLog, Returned("Pop", 0, FALSE))
     ELSE LET i == Len(stack) IN
          /\ stack' = SubSeq(stack, 1, i - 1)
          /\ stackLog' = Append(stackLog, Returned("Pop", stack[i], TRUE))
  /\ UNCHANGED <<items, queueLog>>
  /\ UNCHANGED notStructs

\* Peek: the zero value and false on an empty stack; else the last element.
Peek ==
  /\ Len(stackLog) < MaxOps
  /\ stackLog' = Append(stackLog,
                        IF Len(stack) = 0 THEN Returned("Peek", 0, FALSE)
                        ELSE Returned("Peek", stack[Len(stack)], TRUE))
  /\ UNCHANGED <<stack, items, queueLog>>
  /\ UNCHANGED notStructs

\* Size: len(*s)
Size ==
  /\ Len(stackLog) < MaxOps
  /\ stackLog' = Append(stackLog, Returned("Size", Len(stack), TRUE))
  /\ UNCHANGED <<stack, items, queueLog>>
  /\ UNCHANGED notStructs

NextStack ==
  \/ \E v \in 1..MaxVal : Push(v)
  \/ Pop
  \/ Peek
  \/ Size

SpecStack == InitStack /\ [][NextStack]_vars

InitQueue ==
  /\ stack = <<>> /\ stackLog = <<>> /\ items = <<>> /\ queueLog = <<>>
  /\ NoChannels /\ NoPool /\ NoLimiter /\ NoBroadcaster /\ NoBus /\ NoSubject

\* Enqueue: q.items = append(q.items, v)
Enqueue(v) ==
  /\ Len(queueLog) < MaxOps
  /\ items' = Append(items, v)
  /\ queueLog' = Append(queueLog, Returned("Enqueue", v, TRUE))
  /\ UNCHANGED <<stack, stackLog>>
  /\ UNCHANGED notStructs

\* A Dequeue that takes the element enqueued last.
Dequeue_Newest ==
  /\ Len(queueLog) < MaxOps
  /\ IF Len(items) = 0
     THEN items' = items /\ queueLog' = Append(queueLog, Returned("Dequeue", 0, FALSE))
     ELSE /\ items' = SubSeq(items, 1, Len(items) - 1)
          /\ queueLog' = Append(queueLog, Returned("Dequeue", items[Len(items)], TRUE))
  /\ UNCHANGED <<stack, stackLog>>
  /\ UNCHANGED notStructs

\* Dequeue: the zero value and false on an empty queue; else q.items[0],
\* and q.items = q.items[1:].
Dequeue ==
  /\ Len(queueLog) < MaxOps
  /\ IF Len(items) = 0
     THEN items' = items /\ queueLog' = Append(queueLog, Returned("Dequeue", 0, FALSE))
     ELSE /\ items' = SubSeq(items, 2, Len(items))
          /\ queueLog' = Append(queueLog, Returned("Dequeue", items[1], TRUE))
  /\ UNCHANGED <<stack, stackLog>>
  /\ UNCHANGED notStructs

\* IsEmpty: len(q.items) == 0
IsEmpty ==
  /\ Len(queueLog) < MaxOps
  /\ queueLog' = Append(queueLog, Returned("IsEmpty", 0, Len(items) = 0))
  /\ UNCHANGED <<stack, stackLog, items>>
  /\ UNCHANGED notStructs

NextQueue ==
  \/ \E v \in 1..MaxVal : Enqueue(v)
  \/ Dequeue
  \/ IsEmpty

SpecQueue == InitQueue /\ [][NextQueue]_vars

\* -------------------------------------------------- GenericChannelSubject
\* (src/pkg/oop/patterns/generic_observer.go)  Subscribe, Unsubscribe and
\* Close hold s.mu alone for their whole body: such a call is one step.
\* Publish holds it for reading, together with other Publish calls: a call
\* of Publish is a step for each turn of its loop.  Channels are numbered in
\* the order Subscribe makes them; gsSubscribers[id] = 0 says that id is not
\* a key of the map.
SubIds == 1..MaxIds
Subscribed == {gsSubscribers[id] : id \in SubIds} \ {0}
Called(op, id) == [op |-> op, id |-> id]

\* sync.RWMutex: the calls of Publish that hold s.mu for reading
GsReading == {k \in DOMAIN gsCalls : gsCalls[k].live}
GsLockFree == GsReading = {}

\* the calls of Subscribe, Publish and Close made so far
GsCallsMade == Len(gsId) + gsEvents + gsCloses

\* NewGenericChannelSubject
InitSubject ==
  /\ gsSubscribers = [id \in SubIds |-> 0]
  /\ gsId = <<>> /\ gsCap = <<>> /\ gsBuf = <<>> /\ gsGot = <<>>
  /\ gsClosed = <<>>
  /\ gsEvents = 0 /\ gsCalls = <<>> /\ gsCloses = 0
  /\ gsLast = Called("New", 0)
  /\ gsPanic = "none"
  /\ NoChannels /\ NoPool /\ NoLimiter /\ NoBroadcaster /\ NoBus /\ NoStructs

\* Subscribe(id, bufferSize): ch := make(chan T, bufferSize);
\* s.subscribers[id] = ch.
SubjectSubscribe(id, bufferSize) ==
  /\ gsPanic = "none"
  /\ GsLockFree
  /\ Len(gsId) < MaxMade /\ GsCallsMade < MaxSubjectCalls
  /\ gsSubscribers' = [gsSubscribers EXCEPT ![id] = Len(gsId) + 1]
  /\ gsId' = Append(gsId, id)
  /\ gsCap' = Append(gsCap, bufferSize)
  /\ gsBuf' = Append(gsBuf, <<>>)
  /\ gsGot' = Append(gsGot, 0)
  /\ gsClosed' = Append(gsClosed, 0)
  /\ gsLast' = Called("Subscribe", id)
  /\ UNCHANGED <<gsEvents, gsCalls, gsCloses, gsPanic>>
  /\ UNCHANGED notSubject

\* Unsubscribe(id): if id is a key, close(ch) and delete(s.subscribers, id).
SubjectUnsubscribe(id) ==
  /\ gsPanic = "none"
  /\ GsLockFree
  /\ LET c == gsSubscribers[id] IN
     IF c = 0
     THEN UNCHANGED <<gsSubscribers, gsClosed, gsPanic>>
     ELSE IF gsClosed[c] > 0
          THEN gsPanic' = "close of closed channel"
               /\ UNCHANGED <<gsSubscribers, gsClosed>>
          ELSE /\ gsClosed' = [gsClosed EXCEPT ![c] = @ + 1]
               /\ gsSubscribers' = [gsSubscribers EXCEPT ![id] = 0]
               /\ gsPanic' = gsPanic
  /\ gsLast' = Called("Unsubscribe", id)
  /\ UNCHANGED <<gsId, gsCap, gsBuf, gsGot, gsEvents, gsCalls, gsCloses>>
  /\ UNCHANGED notSubject

\* Publish(event): s.mu.RLock(), and the range over the map begins: the
\* channels of the map are those the loop will visit, in an order of Go's
\* choosing.
SubjectPublish ==
  /\ gsPanic = "none"
  /\ gsEvents < MaxEvents /\ GsCallsMade < MaxSubjectCalls
  /\ gsEvents' = gsEvents + 1
  /\ gsCalls' = Append(gsCalls, [todo |-> Subscribed, live |-> TRUE])
  /\ gsLast' = Called("Publish", 0)
  /\ UNCHANGED <<gsSubscribers, gsId, gsCap, gsBuf, gsGot, gsClosed, gsCloses, gsPanic>>
  /\ UNCHANGED notSubject

\* Publish, one turn of its loop, on channel c: a send that does not block:
\* the event goes in the buffer if there is room, straight to the reader if
\* the channel has no buffer and the reader is waiting in a receive (ready),
\* and is dropped otherwise; on a closed channel the send panics.
SubjectPublishSend(k, c, ready) ==
  /\ gsPanic = "none"
  /\ k \in GsReading
  /\ c \in gsCalls[k].todo
  /\ IF gsClosed[c] > 0
     THEN gsPanic' = "send on closed channel" /\ UNCHANGED <<gsBuf, gsGot, gsCalls>>
     ELSE /\ gsPanic' = gsPanic
          /\ gsBuf' = IF Len(gsBuf[c]) < gsCap[c]
                      THEN [gsBuf EXCEPT ![c] = Append(@, k)] ELSE gsBuf
          /\ gsGot' = IF gsCap[c] = 0 /\ ready
                      THEN [gsGot EXCEPT ![c] = @ + 1] ELSE gsGot
          /\ gsCalls' = [gsCalls EXCEPT ![k].todo = @ \ {c}]
  /\ gsLast' = Called("send", c)
  /\ UNCHANGED <<gsSubscribers, gsId, gsCap, gsClosed, gsEvents, gsCloses>>
  /\ UNCHANGED notSubject

\* Publish returns after the last channel: defer s.mu.RUnlock().
SubjectPublishReturn(k) ==
  /\ gsPanic = "none"
  /\ k \in GsReading
  /\ gsCalls[k].todo = {}
  /\ gsCalls' = [gsCalls EXCEPT ![k].live = FALSE]
  /\ gsLast' = Called("return", k)
  /\ UNCHANGED <<gsSubscribers, gsId, gsCap, gsBuf, gsGot, gsClosed, gsEvents, gsCloses,
                 gsPanic>>
  /\ UNCHANGED notSubject

\* A Close that leaves the closed channels in the map.
SubjectClose_KeepsMap ==
  /\ gsPanic = "none"
  /\ GsLockFree
  /\ gsCloses < MaxSubjectCloses /\ GsCallsMade < MaxSubjectCalls
  /\ gsCloses' = gsCloses + 1
  /\ IF \E c \in Subscribed : gsClosed[c] > 0
     THEN gsPanic' = "close of closed channel" /\ UNCHANGED <<gsClosed, gsSubscribers>>
     ELSE /\ gsClosed' = [c \in DOMAIN gsClosed |->
                            IF c \in Subscribed THEN gsClosed[c] + 1 ELSE gsClosed[c]]
          /\ gsSubscribers' = gsSubscribers
          /\ gsPanic' = gsPanic
  /\ gsLast' = Called("Close", 0)
  /\ UNCHANGED <<gsId, gsCap, gsBuf, gsGot, gsEvents, gsCalls>>
  /\ UNCHANGED notSubject

\* A Close that closes every channel Subscribe ever made and that is open.
SubjectClose_ClosesAllMade ==
  /\ gsPanic = "none"
  /\ GsLockFree
  /\ gsCloses < MaxSubjectCloses /\ GsCallsMade < MaxSubjectCalls
  /\ gsCloses' = gsCloses + 1
  /\ gsClosed' = [c \in DOMAIN gsClosed |-> 1]
  /\ gsSubscribers' = [id \in SubIds |-> 0]
  /\ gsPanic' = gsPanic
  /\ gsLast' = Called("Close", 0)
  /\ UNCHANGED <<gsId, gsCap, gsBuf, gsGot, gsEvents, gsCalls>>
  /\ UNCHANGED notSubject

\* Close: close(ch) for each channel of the map, then a new, empty map.  A
\* channel of the map that is closed already stops the loop with a panic,
\* after the channels the range met before it.
SubjectClose ==
  /\ gsPanic = "none"
  /\ GsLockFree
  /\ gsCloses < MaxSubjectCloses /\ GsCallsMade < MaxSubjectCalls
  /\ gsCloses' = gsCloses + 1
  /\ IF \E c \in Subscribed : gsClosed[c] > 0
     THEN /\ gsPanic' = "close of closed channel"
          /\ \E met \in SUBSET {c \in Subscribed : gsClosed[c] = 0} :
               gsClosed' = [c \in DOMAIN gsClosed |->
                              IF c \in met THEN gsClosed[c] + 1 ELSE gsClosed[c]]
          /\ UNCHANGED gsSubscribers
     ELSE /\ gsClosed' = [c \in DOMAIN gsClosed |->
                            IF c \in Subscribed THEN gsClosed[c] + 1 ELSE gsClosed[c]]
          /\ gsSubscribers' = [id \in SubIds |-> 0]
          /\ gsPanic' = gsPanic
  /\ gsLast' = Called("Close", 0)
  /\ UNCHANGED <<gsId, gsCap, gsBuf, gsGot, gsEvents, gsCalls>>
  /\ UNCHANGED notSubject

\* The reader of channel c receives the next event waiting in it.
SubjectReceive(c) ==
  /\ gsPanic = "none"
  /\ gsBuf[c] # <<>>
  /\ gsGot' = [gsGot EXCEPT ![c] = @ + 1]
  /\ gsBuf' = [gsBuf EXCEPT ![c] = Tail(@)]
  /\ gsLast' = Called("Receive", c)
  /\ UNCHANGED <<gsSubscribers, gsId, gsCap, gsClosed, gsEvents, gsCalls, gsCloses,
                 gsPanic>>
  /\ UNCHANGED notSubject

NextSubject ==
  \/ \E id \in SubIds, bufferSize \in {0, MaxBuf} : SubjectSubscribe(id, bufferSize)
  \/ \E id \in SubIds : SubjectUnsubscribe(id)
  \/ SubjectPublish
  \/ \E k \in DOMAIN gsCalls, c \in DOMAIN gsBuf, ready \in BOOLEAN :
       SubjectPublishSend(k, c, ready)
  \/ \E k \in DOMAIN gsCalls : SubjectPublishReturn(k)
  \/ SubjectClose
  \/ \E c \in DOMAIN gsBuf : SubjectReceive(c)

SpecSubject == InitSubject /\ [][NextSubject]_vars

\* ================================================================ claims

\* What the specification says a stage computes.
SpecF(kind, x) == IF kind = "SafePipeline" THEN 2 * x ELSE x * x
SpecOutput(kind, values) == [i \in 1..Len(values) |-> SpecF(kind, values[i])]

\* C1: with no cancellation, a stage fed by Generator emits one output per
\* input, in input order, output[i] = f(input[i]), and then closes its
\* output: what the consumer holds is always a prefix of f applied to the
\* input, it is all of it once the stage has closed its output, and while
\* the consumer keeps reading the pipeline stops only when the consumer has
\* seen the close; Generator(1,2,3,4,5) through SafePipeline is collected
\* as [2,4,6,8,10].
C1_StageMapsInOrder ==
  ~ctxDone =>
    LET want == SpecOutput(net[Stage].kind, net[Gen].values) IN
    /\ IsPrefix(got[Cons], want)
    /\ closed[Stage] > 0 => got[Cons] = want /\ closed[Stage] = 1
    /\ pc[Cons] = "range" /\ ~ENABLED GoStep => FALSE
    /\ pc[Cons] = "done" => got[Cons] = want /\ closed[Stage] = 1
    /\ (pc[Cons] = "done" /\ net[Stage].kind = "SafePipeline"
          /\ net[Gen].values = <<1, 2, 3, 4, 5>>) => got[Cons] = <<2, 4, 6, 8, 10>>

C1_Witness ==
  /\ ~ctxDone
  /\ net[Stage].kind = "SafePipeline"
  /\ net[Gen].values = <<1, 2, 3, 4, 5>>
  /\ pc[Cons] = "done"
  /\ got[Cons] = <<2, 4, 6, 8, 10>>
  /\ closed[Stage] = 1

\* How many times x occurs in the sequence s.
Count(s, x) == Cardinality({i \in DOMAIN s : s[i] = x})
SeqRange(s) == {s[i] : i \in DOMAIN s}
SameBag(s, t) == \A x \in SeqRange(s) \cup SeqRange(t) : Count(s, x) = Count(t, x)

\* The values of the Generator's argument list not sent yet.
Unsent(g) == SubSeq(net[g].values, idx[g], Len(net[g].values))

\* How many goroutines of the given kinds hold a value whose image under F is x.
Holding(kinds, F(_), x) ==
  Cardinality({p \in DOMAIN net : net[p].kind \in kinds /\ pc[p] = "select" /\ F(val[p]) = x})

SpecSquare(x) == x * x
SpecSame(x) == x

\* C2: with no cancellation, FanOutFanIn over n >= 1 workers emits the
\* squares of its M inputs as a multiset and then closes its output: every
\* input is at each moment in exactly one place (not yet sent, held by one
\* worker, held by one forwarder, or received), the output is closed once,
\* only when all M squares have been received, and while the consumer keeps
\* reading the network does not stop before that.
C2_FanOutFanInMultiset ==
  ~ctxDone =>
    LET want == SpecOutput("Square", net[Gen].values) IN
    /\ panic = "none"
    /\ \A x \in SeqRange(want) \cup SeqRange(got[Cons]) :
          Count(got[Cons], x) + Holding({"forwarder"}, SpecSame, x)
            + Holding({"worker", "Square"}, SpecSquare, x)
            + Count(SpecOutput("Square", Unsent(Gen)), x) = Count(want, x)
    /\ closed[Barrier] > 0 =>
          /\ closed[Barrier] = 1
          /\ SameBag(got[Cons], want)
          /\ Len(got[Cons]) = Len(net[Gen].values)
    /\ pc[Cons] = "range" => ENABLED GoStep
    /\ pc[Cons] = "done" => closed[Barrier] = 1

C2_Witness ==
  /\ ~ctxDone
  /\ Worker(2) \in DOMAIN net
  /\ net[Gen].values = <<1, 2>>
  /\ got[Cons] = <<4, 1>>
  /\ pc[Cons] = "done"

\* C4: with no cancellation and both outputs being consumed, Tee delivers
\* on out1 and on out2 the sequence of its input and then closes both: what
\* each consumer holds is a prefix of the input, it is the whole input once
\* Tee has closed an output, each output is closed once, and while both
\* consumers keep reading nothing stops before both have seen the close.
C4_TeeCopiesInput ==
  ~ctxDone =>
    LET src == net[Gen].values IN
    /\ panic = "none"
    /\ IsPrefix(got[Cons], src) /\ IsPrefix(got[Cons2], src)
    /\ closed[TeeP] > 0 \/ closed[Tee2] > 0 =>
          /\ got[Cons] = src /\ got[Cons2] = src
          /\ closed[TeeP] <= 1 /\ closed[Tee2] = 1
    /\ (pc[Cons] # "stopped" /\ pc[Cons2] # "stopped"
          /\ ~(pc[Cons] = "done" /\ pc[Cons2] = "done")) => ENABLED GoStep
    /\ pc[Cons] = "done" /\ pc[Cons2] = "done" =>
          got[Cons] = got[Cons2] /\ Len(got[Cons]) = Len(src)

C4_Witness ==
  /\ ~ctxDone
  /\ net[Gen].values = <<1, 2, 3, 4, 5>>
  /\ pc[Cons] = "done" /\ pc[Cons2] = "done"
  /\ got[Cons] = <<1, 2, 3, 4, 5>> /\ got[Cons2] = <<1, 2, 3, 4, 5>>
  /\ closed[TeeP] = 1 /\ closed[Tee2] = 1

\* Every goroutine of the network has returned and every channel made by a
\* constructor has been closed.
AllExited ==
  /\ \A p \in Goroutines : pc[p] = "done"
  /\ \A c \in DOMAIN closed : closed[c] = 1

\* C3: in every network rooted at Generator whose stages share the context
\* (the pipeline, FanOutFanIn, Tee, OrDone, Bridge and their composition),
\* cancelling at any point, also after a consumer has stopped reading,
\* leads to a state where every goroutine has exited and every output
\* channel is closed.
C3_CancelStopsEverything == ctxDone ~> AllExited

C3_Witness ==
  /\ ctxDone
  /\ AllExited
  /\ {TeeP, BridgeP, OrDoneP, Stage} \subseteq DOMAIN net
  /\ pc[Cons] = "stopped" /\ pc[Cons2] = "stopped"
  /\ idx[Gen] <= Len(net[Gen].values)

\* The jobs that a worker has called and that have not returned.
Executing == {j \in DOMAIN started : started[j] > finished[j]}

\* C5: when jobs 1..K have been submitted and Close is called, each of
\* them is executed exactly once, Close returns, and it returns only after
\* all K have finished and all workers have exited.  (A Submit or a Close
\* after that Close is a misuse that panics: the program ends there.)
C5_CloseRunsAllJobs ==
  /\ [](\A j \in DOMAIN started :
          /\ started[j] <= 1 /\ finished[j] <= started[j]
          /\ j > submitted => started[j] = 0)
  /\ [](closePc = "returned" =>
          /\ \A j \in 1..submitted : started[j] = 1 /\ finished[j] = 1
          /\ \A i \in DOMAIN wpc : wpc[i] = "done"
          /\ jobs = <<>>)
  /\ (closePc = "waiting" ~> (closePc = "returned" \/ poolPanic # "none"))

C5_Witness ==
  /\ closePc = "returned"
  /\ poolPanic = "none"
  /\ submitted = MaxJobs
  /\ poolWorkers = 3
  /\ \A j \in 1..MaxJobs : finished[j] = 1

\* C6: at most W jobs of a pool of W workers execute at the same time.
C6_AtMostWExecuting == Cardinality(Executing) <= poolWorkers

C6_Witness ==
  /\ Cardinality(Executing) = poolWorkers
  /\ poolWorkers = 3
  /\ jobs # <<>>


\* ---- RateLimiter
LogHas(e) == \E k \in 1..Len(rlLog) : rlLog[k] = e

\* C7: in every state of a RateLimiter of capacity C, whatever the
\* interleaving of ticks, Allow, Wait and Close, the tokens in the bucket
\* number between 0 and C; before anything has happened they number C.
C7_TokensWithinCapacity ==
  /\ tokens \in 0..rlCap
  /\ rlLog = <<>> => tokens = rlCap

\* a tick on the full bucket, an Allow, a Wait and a Close have all happened
\* and the bucket is full again
C7_Witness ==
  /\ rlCap = MaxCap /\ tokens = rlCap /\ stopClosed
  /\ rlLog # <<>> /\ rlLog[1] = "tick"
  /\ LogHas("T") /\ LogHas("W")

NoWaitCallers == waiting = <<>> /\ ~LogHas("W")
TicksBefore(k) == {t \in 1..(k - 1) : rlLog[t] = "tick"}

\* without a tick, exactly the first C Allow calls return true
FirstCAllowed ==
  \A k \in 1..Len(rlLog) :
    (rlLog[k] # "tick" /\ TicksBefore(k) = {}) => (rlLog[k] = "T" <=> k <= rlCap)

\* after the one tick that follows the exhaustion of the bucket, exactly one
\* further Allow call returns true: the first
OneMoreAfterTick ==
  \A k \in 1..Len(rlLog) :
    (rlLog[k] # "tick" /\ \E t \in rlCap + 1 .. k - 1 : TicksBefore(k) = {t})
      => (rlLog[k] = "T" <=> rlLog[k - 1] = "tick")

\* C8 as stated (it fails on a bucket of capacity 0, where the tick puts no
\* token in the bucket and every Allow is refused): on a fresh RateLimiter of capacity C with no Wait callers,
\* without a tick exactly the first C Allow calls return true and the next one
\* false; after one tick exactly one further Allow call returns true.
C8_Original == NoWaitCallers => (FirstCAllowed /\ OneMoreAfterTick)

\* C8: on a fresh RateLimiter of capacity C with no Wait callers, without a
\* tick exactly the first C Allow calls return true and the next one false;
\* if C >= 1, after one tick exactly one further Allow call returns true.
C8_AllowCountsTokens ==
  NoWaitCallers => (FirstCAllowed /\ (rlCap >= 1 => OneMoreAfterTick))

\* C Allow calls allowed, one refused, a tick, one allowed, one refused
C8_Witness ==
  /\ rlCap = MaxCap /\ NoWaitCallers
  /\ Len(rlLog) = rlCap + 4
  /\ \A k \in 1..rlCap : rlLog[k] = "T"
  /\ SubSeq(rlLog, rlCap + 1, rlCap + 4) = <<"F", "tick", "T", "F">>

\* ---- Broadcaster
\* what outbox c was given: what its consumer received and what still waits
Delivered(c) == recvd[c] \o outbox[c]
DroppedValues(c) == {dropped[c][k].v : k \in 1..Len(dropped[c])}
Broadcasts == 1..Len(dispatched)

\* broadcast number j has made its offer to subscriber c
OfferedTo(j, c) ==
  /\ c \in 1..dispatched[j].n
  /\ j < Len(dispatched) \/ bpc # "broadcast" \/ c < bi

RECURSIVE OfferedValues(_, _)
OfferedValues(j, c) ==
  IF j = 0 THEN <<>>
  ELSE OfferedValues(j - 1, c)
         \o (IF OfferedTo(j, c) THEN <<dispatched[j].v>> ELSE <<>>)

RECURSIVE BroadcastValues(_)
BroadcastValues(j) ==
  IF j = 0 THEN <<>> ELSE Append(BroadcastValues(j - 1), dispatched[j].v)

\* the values Send put in the inbox are broadcast in that order
AcceptedInOrder ==
  accepted = BroadcastValues(Len(dispatched))
               \o (IF bpc = "rlock" THEN <<bval>> ELSE <<>>) \o input

\* a broadcast value was offered to every subscriber registered when its
\* broadcast began: the subscriber was given it or, its outbox full, not
OfferedToAll ==
  \A j \in Broadcasts : \A c \in 1..dispatched[j].n :
    OfferedTo(j, c) =>
      /\ (dispatched[j].v \in SeqRange(Delivered(c)))
           # (dispatched[j].v \in DroppedValues(c))
      /\ \A k \in 1..Len(dropped[c]) : dropped[c][k].len = OutboxCap

\* a subscriber whose outbox never was full was given every value offered
NeverFullGetsAll ==
  \A c \in 1..Len(subscribers) :
    dropped[c] = <<>> => Delivered(c) = OfferedValues(Len(dispatched), c)

\* C9: while the Broadcaster runs, every value accepted by Send is in the end
\* broadcast, that is offered to every subscriber registered when its
\* broadcast begins;
\* each of these whose outbox is not full then is given it, so that
\* subscribers whose outboxes never fill are given every value sent.
C9_OfferedToEverySubscriber ==
  /\ [](AcceptedInOrder /\ OfferedToAll /\ NeverFullGetsAll)
  /\ <>[](bDone \/ (input = <<>> /\ bpc = "select"
                      /\ accepted = BroadcastValues(Len(dispatched))))

\* two subscribers registered before the first broadcast, no outbox ever
\* full, the inbox empty: both were given every value sent
C9_Witness ==
  /\ ~bDone /\ bpc = "select" /\ input = <<>>
  /\ Len(subscribers) = 2 /\ Len(accepted) >= 3
  /\ dispatched[1].n = 2
  /\ Received > 0
  /\ \A c \in 1..2 : dropped[c] = <<>> /\ Delivered(c) = accepted

\* a value dropped for subscriber c was dropped for c only
DroppedForThatOneOnly ==
  \A j \in Broadcasts : \A c \in 1..dispatched[j].n :
    (OfferedTo(j, c) /\ dispatched[j].v \in DroppedValues(c)) =>
      /\ dispatched[j].v \notin SeqRange(Delivered(c))
      /\ \A d \in 1..dispatched[j].n :
           (d # c /\ OfferedTo(j, d)) =>
             \/ dispatched[j].v \in SeqRange(Delivered(d))
             \/ [v |-> dispatched[j].v, len |-> OutboxCap] \in SeqRange(dropped[d])

\* C10: the dispatcher never waits on a full outbox (10 values waiting): its
\* offer can always be made, the value is dropped for the full outbox only and
\* given to the other subscribers that have room, and the dispatcher, back at
\* its select, can take the next value of the inbox.
C10_FullOutboxDoesNotBlock ==
  /\ [](bpc = "broadcast" /\ bPanic = "none" => ENABLED Offer)
  /\ [](DroppedForThatOneOnly)
  /\ [][bpc = "broadcast" => bpc' \in {"broadcast", "select"}]_vars
  /\ [](bpc = "select" /\ input # <<>> /\ bPanic = "none" => ENABLED RunTake)

\* a value was dropped for one subscriber whose outbox held 10 values, given
\* to the other, and a later value was broadcast
C10_Witness ==
  \E c, d \in 1..Len(subscribers) :
    /\ c # d /\ dropped[c] # <<>>
    /\ dropped[c][1].len = 10
    /\ dropped[c][1].v \in SeqRange(Delivered(d))
    /\ \E j \in Broadcasts : dispatched[j].v > dropped[c][1].v
    /\ bpc = "select"

\* C11 as stated (it fails when the inbox holds 10 values and the context is
\* not cancelled: Send then waits for the dispatcher to take a value): in
\* every state a call of Send can complete at once, whatever the inbox holds
\* and whether or not the broadcaster is closed.
C11_SendNeverBlocks ==
  (bPanic = "none" /\ sends < MaxSend /\ (bDone => lateSends < MaxAfterClose))
    => ENABLED (\E taken \in BOOLEAN : Send(taken))

\* the values sent by the calls of Send that came after Close
LateValues == (sends - lateSends + 1)..sends

\* C12 as stated (it fails: the select of Send may put the value in the inbox
\* although the context is cancelled, and the select of run may take it from
\* there before it sees the cancellation): a value passed to Send after Close
\* is given to no subscriber.
C12_LateSendNeverDelivered ==
  \A c \in 1..Len(subscribers) : SeqRange(Delivered(c)) \cap LateValues = {}

\* C13: once Close is called the dispatcher in the end terminates; when it
\* does, the outbox of every subscriber registered by then is closed; from
\* then on nothing is broadcast and the broadcaster never runs again.
C13_CloseStopsDispatcher ==
  /\ bDone ~> (bpc = "done")
  /\ [][(bpc # "done" /\ bpc' = "done")
          => \A c \in 1..Len(subscribers) : outClosed'[c] = 1]_vars
  /\ [][bpc = "done"
          => /\ bpc' = "done"
             /\ UNCHANGED <<dispatched, outClosed>>
             /\ \A c \in Outboxes : Delivered(c)' = Delivered(c)]_vars
  /\ [][bDone => bDone']_vars

\* the dispatcher has terminated after broadcasting to two subscribers, whose
\* outboxes are closed
C13_Witness ==
  /\ bDone /\ bpc = "done" /\ Len(subscribers) = 2 /\ dispatched # <<>>
  /\ dispatched[Len(dispatched)].n = 2
  /\ \A c \in 1..2 : outClosed[c] = 1

\* C14: a call of Close after the first changes nothing, no call panics, and
\* no outbox is closed a second time.
C14_CloseIdempotent ==
  /\ [](bPanic = "none" /\ \A c \in Outboxes : outClosed[c] <= 1)
  /\ [][(bDone /\ BroadcasterClose) => UNCHANGED vars]_vars

\* Close was called, the outboxes of the two subscribers are closed, and
\* Close can be called again
C14_Witness ==
  /\ bDone /\ bpc = "done" /\ Len(subscribers) = 2
  /\ \A c \in 1..2 : outClosed[c] = 1
  /\ ENABLED BroadcasterClose

\* ---- merge / FanIn
Forwarders == {p \in DOMAIN net : net[p].kind = "forwarder"}

\* C16: the output of merge/FanIn is closed at most once, by the barrier
\* goroutine only and only when every forwarder has exited; no forwarder
\* sends on it once it is closed (nothing panics), cancellation or not.
C16_MergeClosesOnce ==
  /\ [](Barrier \in DOMAIN net =>
          /\ panic = "none"
          /\ closed[Barrier] <= 1
          /\ closed[Barrier] = 1 =>
               (wg = 0 /\ \A f \in Forwarders : pc[f] = "done"))
  /\ [][(Barrier \in DOMAIN net /\ closed'[Barrier] # closed[Barrier]) =>
          /\ pc[Barrier] = "exit" /\ pc'[Barrier] = "done"
          /\ \A f \in Forwarders : pc[f] = "done" /\ pc'[f] = "done"]_vars

\* after a cancellation the output is closed, the forwarders of the largest
\* merge having exited, one of them after forwarding a value
C16_Witness ==
  /\ Barrier \in DOMAIN net /\ ctxDone /\ closed[Barrier] = 1
  /\ Cardinality(Forwarders) = MaxWorkers
  /\ got[Cons] # <<>>

\* ---- stages
\* C17 as stated (it fails: a stage looks at the context only when it has a
\* value to send, so it stays in its range over an upstream that is open and
\* silent although the token is cancelled): a stage has closed its downstream
\* exactly when its goroutine has exited; it exits once its upstream has
\* closed, as long as its consumer reads, and once the token is cancelled,
\* also when the upstream is still open and produces nothing more.
C17_StageExits ==
  /\ [](Stage \in DOMAIN net => (closed[Stage] = 1 <=> pc[Stage] = "done"))
  /\ (Stage \in DOMAIN net /\ closed[Src] > 0)
       ~> (Stage \in DOMAIN net /\ (pc[Stage] = "done" \/ pc[Cons] = "stopped"))
  /\ (Stage \in DOMAIN net /\ ctxDone)
       ~> (Stage \in DOMAIN net /\ pc[Stage] = "done")

\* ---- OrDone
HasOrDone == OrDoneP \in DOMAIN net

\* C18 as stated (it fails: with the source closed, a value held by OrDone,
\* the consumer gone and no cancellation, OrDone stays in its send and the
\* deferred close never runs): the output of OrDone is closed in the end once
\* the source is closed or the token is cancelled, also when the source
\* neither produces nor closes and when the consumer has stopped reading;
\* after cancellation a consumer ranging over the output does not wait
\* forever.
C18_Original ==
  /\ (HasOrDone /\ ctxDone) ~> (HasOrDone /\ closed[OrDoneP] = 1)
  /\ (HasOrDone /\ closed[Src] > 0) ~> (HasOrDone /\ closed[OrDoneP] = 1)
  /\ (HasOrDone /\ ctxDone /\ pc[Cons] = "range")
       ~> (HasOrDone /\ pc[Cons] \in {"done", "stopped"})

\* C18, amended: the output of OrDone is closed in the end once the token is
\* cancelled, also when the source neither produces nor closes and when the
\* consumer has stopped reading; once the source is closed it is closed in
\* the end as long as the consumer keeps reading (a consumer that stopped
\* leaves the closing to the cancellation); after cancellation a consumer
\* ranging over the output does not wait forever.
C18_OrDoneCloses ==
  /\ (HasOrDone /\ ctxDone) ~> (HasOrDone /\ closed[OrDoneP] = 1)
  /\ (HasOrDone /\ closed[Src] > 0)
       ~> (HasOrDone /\ (closed[OrDoneP] = 1 \/ pc[Cons] = "stopped"))
  /\ (HasOrDone /\ ctxDone /\ pc[Cons] = "range")
       ~> (HasOrDone /\ pc[Cons] \in {"done", "stopped"})

\* cancelled with the source open and silent and the consumer stopped, the
\* output is closed
C18_Witness ==
  /\ HasOrDone /\ net[Src].kind = "OpenFeeder" /\ closed[Src] = 0
  /\ pc[Src] = "idle" /\ pc[Cons] = "stopped" /\ got[Cons] # <<>>
  /\ ctxDone /\ closed[OrDoneP] = 1

\* C19 as stated (it fails: when the token is cancelled both cases of OrDone's
\* selects can be ready, and Go takes either): once the token is cancelled
\* the output of OrDone gives its consumer no further value.
C19_NothingPastCancellation ==
  [][(HasOrDone /\ ctxDone) => got' = got]_vars

\* ---- Generator / GenerateNumbers
\* what GenerateNumbers is to produce: start, start + 1, ..., end
RECURSIVE Counting(_, _)
Counting(start, end) ==
  IF end < start THEN <<>> ELSE <<start>> \o Counting(start + 1, end)

\* C20: what the consumer of a producer has received is an initial part of
\* the values given, each once and in order (for GenerateNumbers: start,
\* start + 1, ...); without cancellation, while the consumer reads, the
\* producer delivers them all and then closes its channel; cancelled, it
\* closes it too; the channel is closed at most once, by the producer's
\* deferred call only.
C20_GeneratorDeliversInOrder ==
  /\ [](IsPrefix(got[Cons], net[Gen].values) /\ closed[Gen] <= 1 /\ panic = "none")
  /\ [](net[Gen].kind = "GenerateNumbers" /\ net[Gen].values # <<>> =>
          net[Gen].values
            = Counting(net[Gen].values[1], net[Gen].values[Len(net[Gen].values)]))
  /\ []((closed[Gen] = 1 /\ ~ctxDone) => got[Cons] = net[Gen].values)
  /\ <>(closed[Gen] = 1 \/ pc[Cons] = "stopped")
  /\ ctxDone ~> (closed[Gen] = 1)
  /\ [][closed'[Gen] # closed[Gen] => (pc[Gen] = "exit" /\ pc'[Gen] = "done")]_vars

\* GenerateNumbers has delivered its numbers and closed its channel, no
\* cancellation
C20_Witness ==
  /\ net[Gen].kind = "GenerateNumbers" /\ Len(net[Gen].values) >= 2
  /\ ~ctxDone /\ closed[Gen] = 1 /\ got[Cons] = net[Gen].values
  /\ pc[Cons] = "done"

\* ---- ChannelEventBus
\* C15 as stated (it fails: Close closes every channel of the map each time
\* it is called, and Publish sends on the channels whether closed or not):
\* calling Close twice closes every subscriber channel exactly once, the
\* second call being a no-op, and a Publish after Close does not send on a
\* closed channel; no call panics.
C15_BusCloseIdempotent ==
  /\ busPanic = "none"
  /\ \A c \in BusChans : busClosed[c] <= 1

\* ---- Tee, step by step
\* C21: Tee offers each value on out1 and then on out2, and the next value
\* reaches out1 only when this one has been taken on out2: what out2's
\* consumer has received is always an initial part of what out1's consumer
\* has received, and at most one value shorter.
C21_TeeLockStep ==
  /\ [](TeeP \in DOMAIN net =>
          /\ IsPrefix(got[Cons2], got[Cons])
          /\ Len(got[Cons]) - Len(got[Cons2]) <= 1)
  /\ [][(TeeP \in DOMAIN net /\ Cons2 \in DOMAIN got /\ got'[Cons] # got[Cons])
          => got[Cons2] = got[Cons]]_vars

\* the second value has been taken on out1 and Tee is offering it on out2
C21_Witness ==
  /\ TeeP \in DOMAIN net /\ Cons2 \in DOMAIN got
  /\ pc[TeeP] = "select2"
  /\ Len(got[Cons]) = 2 /\ Len(got[Cons2]) = 1

\* C22: however the Tee goroutine returns, both outputs are then closed,
\* each once; no output is closed while Tee can still send on it, and
\* nothing panics.
C22_TeeClosesBoth ==
  (TeeP \in DOMAIN net /\ Tee2 \in DOMAIN closed) =>
    /\ panic = "none"
    /\ closed[TeeP] <= 1 /\ closed[Tee2] <= 1
    /\ pc[TeeP] = "done" => (closed[TeeP] = 1 /\ closed[Tee2] = 1)
    /\ (closed[TeeP] > 0 \/ closed[Tee2] > 0) => pc[TeeP] \in {"exit1", "done"}

\* Tee has returned on the cancellation seen at its offer on out2, with its
\* input still open, and both outputs are closed
C22_Witness ==
  /\ TeeP \in DOMAIN net /\ Tee2 \in DOMAIN closed /\ Cons2 \in DOMAIN got
  /\ ctxDone /\ pc[TeeP] = "done" /\ closed[Gen] = 0
  /\ Len(got[Cons]) = Len(got[Cons2]) + 1
  /\ closed[TeeP] = 1 /\ closed[Tee2] = 1

\* ---- Bridge
\* the inner channels the owner of chanStream queued, and those Bridge took
InnerCount == Cardinality({p \in DOMAIN net : p[1] = "inner"})
InnerTaken == InnerCount - Len(chanStream)

\* the values of the first n inner sources, one source after the other
RECURSIVE Flattened(_)
Flattened(n) == IF n = 0 THEN <<>> ELSE Flattened(n - 1) \o net[Inner(n)].values

\* C23: with no cancellation, what Bridge has emitted is an initial part of
\* the inner sequences put end to end in the order of chanStream; Bridge
\* takes the next inner channel only when it has emitted every value of the
\* ones before; when its output is closed, chanStream is closed and empty
\* and every value has been emitted; and while chanStream is closed and the
\* consumer reads, some goroutine can go on.
C23_BridgeConcatenates ==
  /\ [](BridgeP \in DOMAIN net /\ ~ctxDone =>
          /\ panic = "none"
          /\ IsPrefix(got[Cons], Flattened(InnerTaken))
          /\ closed[BridgeP] <= 1
          /\ closed[BridgeP] = 1 =>
               /\ streamClosed /\ chanStream = <<>>
               /\ got[Cons] = Flattened(InnerCount)
          /\ (streamClosed /\ pc[Cons] = "range") => ENABLED GoStep)
  /\ [][(BridgeP \in DOMAIN net /\ ~ctxDone /\ chanStream' # chanStream)
          => got[Cons] = Flattened(InnerTaken)]_vars

\* two inner sources of one value each were drained in turn and the output
\* is closed, no cancellation
C23_Witness ==
  /\ BridgeP \in DOMAIN net /\ ~ctxDone
  /\ InnerCount = 2 /\ got[Cons] = <<11, 21>>
  /\ closed[BridgeP] = 1 /\ pc[Cons] = "done"

\* the relays Bridge started (one OrDone per inner channel taken)
Relays == {p \in DOMAIN net : p[1] = "ordone"}

\* C24: once the context is cancelled, Bridge and every relay it started
\* return and their outputs are closed, whether or not the inner channels
\* and chanStream are ever closed; and once the context is cancelled with an
\* inner channel taken, Bridge takes no further channel from chanStream.
C24_BridgeStopsOnCancel ==
  /\ (BridgeP \in DOMAIN net /\ ctxDone)
       ~> (BridgeP \in DOMAIN net /\ pc[BridgeP] = "done" /\ closed[BridgeP] = 1
           /\ \A r \in Relays : pc[r] = "done" /\ closed[r] = 1)
  /\ [][(BridgeP \in DOMAIN net /\ ctxDone /\ Relays # {})
          => chanStream' = chanStream]_vars
\* ---- WorkerPool, full queue
\* C25: the queue never holds more than JobsCap jobs; while it holds
\* JobsCap jobs no Submit completes; the job submitted as number
\* JobsCap + n is enqueued only after a worker has taken job number n from
\* the queue; and every job whose Submit completed is in the queue exactly
\* once or was taken from it exactly once.
C25_QueueBounded ==
  /\ [](poolWorkers > 0 =>
          /\ Len(jobs) <= JobsCap
          /\ (Len(jobs) = JobsCap /\ ~jobsClosed) => ~ENABLED Submit
          /\ \A j \in DOMAIN started :
               Count(jobs, j) + started[j] = IF j <= submitted THEN 1 ELSE 0)
  /\ [][(poolWorkers > 0 /\ submitted' # submitted) =>
          /\ Len(jobs) < JobsCap
          /\ Len(jobs') = Len(jobs) + 1
          /\ submitted >= JobsCap => started[submitted + 1 - JobsCap] = 1]_vars

\* the queue was full, a worker took a job, and the Submit of job number
\* JobsCap + 1 completed: the queue is full again
C25_Witness ==
  /\ poolWorkers > 0 /\ ~jobsClosed
  /\ submitted = JobsCap + 1 /\ Len(jobs) = JobsCap
  /\ started[1] = 1 /\ ~ENABLED Submit
\* ---- RateLimiter, step by step
\* the calls and ticks of the step just taken, while there is room to
\* follow them in full
Fresh == IF Len(rlLog) + 2 > MaxLog \/ Len(rlLog') <= Len(rlLog) THEN <<>>
         ELSE SubSeq(rlLog', Len(rlLog) + 1, Len(rlLog'))
WaitServed == waiting # <<>> /\ waiting' = Tail(waiting)

\* C26: a tick on a bucket holding fewer than C tokens adds exactly one
\* token (which a caller blocked in Wait takes at once, if there is one); a
\* tick on a bucket holding C tokens leaves it as it is; and the refill
\* goroutine, as long as it has not returned, can always take its next tick.
C26_TickAddsOne ==
  /\ []((refillPc = "select" /\ rlPanic = "none") => ENABLED Tick)
  /\ [][(Fresh # <<>> /\ Fresh[1] = "tick") =>
          /\ tokens < rlCap =>
               \/ tokens' = tokens + 1 /\ Fresh = <<"tick">> /\ waiting = <<>>
               \/ tokens' = tokens /\ Fresh = <<"tick", "W">> /\ WaitServed
          /\ (tokens = rlCap /\ rlCap > 0) => (tokens' = tokens /\ Fresh = <<"tick">>)
          /\ refillPc' = "select"]_vars

\* a tick on the full bucket, an Allow, and a tick that fills it again
C26_Witness ==
  /\ rlCap = 2 /\ rlLog = <<"tick", "T", "tick">> /\ tokens = 2
  /\ refillPc = "select"

\* C27: Allow can always be called and return; it returns true exactly when
\* the bucket holds a token, and then takes exactly one; it returns false
\* exactly when the bucket is empty, and then leaves it empty.
C27_AllowNeverBlocks ==
  /\ [](rlPanic = "none" => ENABLED Allow)
  /\ [][(Fresh = <<"T">> => (tokens > 0 /\ tokens' = tokens - 1))
         /\ (Fresh = <<"F">> => (tokens = 0 /\ tokens' = 0))
         /\ ((Fresh = <<"T">> \/ Fresh = <<"F">>) => UNCHANGED <<waiting, refillPc, stopClosed>>)]_vars

\* the one token was allowed, the next call refused, with a caller blocked
\* in Wait and the limiter closed
C27_Witness ==
  /\ rlCap = 1 /\ rlLog = <<"T", "F">> /\ tokens = 0
  /\ waiting # <<>> /\ stopClosed

\* C28: a caller is blocked in Wait only while the bucket is empty; every
\* Wait that returns has withdrawn one token (the calls that returned with a
\* token never outnumber the tokens put in); and a caller blocked in Wait
\* returns unless the refill goroutine stops (or a second Close has crashed
\* the program), whatever the other callers of Wait and Allow do.
C28_WaitTakesToken ==
  /\ [](waiting # <<>> => tokens = 0)
  /\ [](Len(rlLog) < MaxLog =>
          Count(rlLog, "T") + Count(rlLog, "W") + tokens <= rlCap + Count(rlLog, "tick"))
  /\ [][(Fresh = <<"W">> => (tokens > 0 /\ tokens' = tokens - 1))
         /\ (Fresh = <<"tick", "W">> => (tokens = 0 /\ tokens' = 0 /\ WaitServed))
         /\ (Blocked' # Blocked /\ Len(rlLog) + 2 <= MaxLog /\ Blocked' \subseteq Blocked)
              => Fresh = <<"tick", "W">>]_vars
  /\ \A c \in Callers :
       (c \in Blocked) ~> (c \notin Blocked \/ refillPc = "done" \/ rlPanic # "none")

\* a caller blocked in Wait was served by a tick while another is still
\* blocked behind it and an Allow was refused
C28_Witness ==
  /\ Len(rlLog) >= 3 /\ Len(rlLog) < MaxLog
  /\ SubSeq(rlLog, Len(rlLog) - 1, Len(rlLog)) = <<"tick", "W">>
  /\ LogHas("F") /\ Len(waiting) = 1 /\ refillPc = "select"

\* C29: once Close has closed rl.stop the number of tokens never increases,
\* and the tokens left can still be withdrawn by Allow and by Wait.
C29_NoRefillAfterClose ==
  /\ [][stopClosed => tokens' <= tokens]_vars
  /\ []((stopClosed /\ tokens > 0 /\ rlPanic = "none") =>
          (ENABLED Allow /\ ENABLED WaitReturn))

\* C30: a caller blocked in Wait when the limiter is closed, or blocked
\* there after it, is released (unless a second Close has crashed the
\* program).
C30_CloseReleasesWait ==
  \A c \in Callers :
    (c \in Blocked /\ stopClosed) ~> (c \notin Blocked \/ rlPanic # "none")
\* ---- Queue and Stack
\* the positions of a log where the call op was made (and returned ok)
Calls(log, op, upTo) == {k \in 1..upTo : log[k].op = op /\ log[k].ok}
\* the n-th of them
Nth(log, op, n) ==
  CHOOSE k \in Calls(log, op, Len(log)) : Cardinality(Calls(log, op, k)) = n

\* C31: each Dequeue returns ok exactly when more elements were enqueued
\* before it than were dequeued, and then returns the oldest enqueued
\* element not yet dequeued (the n-th Dequeue that succeeds returns the
\* n-th element enqueued) and removes it; on an empty queue it returns the
\* zero value and false and leaves the queue as it is; the queue holds the
\* elements enqueued and not yet dequeued, oldest first.
C31_QueueFIFO ==
  /\ [](\A k \in 1..Len(queueLog) :
          queueLog[k].op = "Dequeue" =>
            LET enq == Cardinality(Calls(queueLog, "Enqueue", k - 1))
                deq == Cardinality(Calls(queueLog, "Dequeue", k - 1))
            IN /\ queueLog[k].ok <=> enq > deq
               /\ queueLog[k].ok =>
                    queueLog[k].v = queueLog[Nth(queueLog, "Enqueue", deq + 1)].v
               /\ ~queueLog[k].ok => queueLog[k].v = 0)
  /\ [](LET enq == Cardinality(Calls(queueLog, "Enqueue", Len(queueLog)))
            deq == Cardinality(Calls(queueLog, "Dequeue", Len(queueLog)))
        IN items = [j \in 1..(enq - deq) |->
                      queueLog[Nth(queueLog, "Enqueue", deq + j)].v])
  /\ [][(Len(queueLog') > Len(queueLog) /\ queueLog'[Len(queueLog')].op = "Dequeue")
          => IF queueLog'[Len(queueLog')].ok
             THEN items # <<>> /\ items' = Tail(items)
             ELSE items = <<>> /\ items' = items]_vars

\* 1 and 2 were enqueued and dequeued in that order, and a third Dequeue
\* found the queue empty
C31_Witness ==
  /\ Len(queueLog) = 5 /\ items = <<>>
  /\ queueLog[1] = Returned("Enqueue", 1, TRUE)
  /\ queueLog[2] = Returned("Enqueue", 2, TRUE)
  /\ queueLog[3] = Returned("Dequeue", 1, TRUE)
  /\ queueLog[4] = Returned("Dequeue", 2, TRUE)
  /\ queueLog[5] = Returned("Dequeue", 0, FALSE)

\* the Push calls of a log whose element is still on the stack after the
\* first upTo calls: since each of them, no more Pop calls than Push calls
Standing(log, upTo) ==
  {j \in Calls(log, "Push", upTo) :
     \A m \in (j + 1)..upTo :
       Cardinality(Calls(log, "Pop", m) \ Calls(log, "Pop", j))
         <= Cardinality(Calls(log, "Push", m) \ Calls(log, "Push", j))}
Newest(S) == CHOOSE j \in S : \A i \in S : i <= j

\* C32: Pop and Peek return ok exactly when some pushed element is not yet
\* popped, and then return the most recently pushed one of these; Pop
\* removes it and makes Size one less, Peek leaves the stack as it is; on
\* an empty stack both return the zero value and false and leave it empty;
\* Size is the number of elements pushed and not yet popped.
C32_StackLIFO ==
  /\ [](\A k \in 1..Len(stackLog) :
          LET S == Standing(stackLog, k - 1) IN
          /\ stackLog[k].op \in {"Pop", "Peek"} =>
               /\ stackLog[k].ok <=> S # {}
               /\ stackLog[k].ok => stackLog[k].v = stackLog[Newest(S)].v
               /\ ~stackLog[k].ok => stackLog[k].v = 0
          /\ stackLog[k].op = "Size" => stackLog[k].v = Cardinality(S))
  /\ [](Len(stack) = Cardinality(Standing(stackLog, Len(stackLog))))
  /\ [][Len(stackLog') > Len(stackLog) =>
          LET r == stackLog'[Len(stackLog')] IN
          /\ (r.op = "Pop" /\ r.ok) =>
               (Len(stack') = Len(stack) - 1 /\ stack = Append(stack', r.v))
          /\ (r.op = "Pop" /\ ~r.ok) => (stack = <<>> /\ stack' = <<>>)
          /\ r.op = "Peek" => (stack' = stack /\ (r.ok <=> stack # <<>>))]_vars

\* Push 1, Push 2, Pop gave 2, Peek gave 1, Size gave 1
C32_Witness ==
  /\ Len(stackLog) = 5 /\ stack = <<1>>
  /\ stackLog[1] = Returned("Push", 1, TRUE)
  /\ stackLog[2] = Returned("Push", 2, TRUE)
  /\ stackLog[3] = Returned("Pop", 2, TRUE)
  /\ stackLog[4] = Returned("Peek", 1, TRUE)
  /\ stackLog[5] = Returned("Size", 1, TRUE)
\* ---- GenericChannelSubject
GsChans == DOMAIN gsClosed
\* the call of the step just taken
GsCall(op) == gsLast'.op = op

\* C33: no call panics, no channel is closed twice, and the channels of the
\* map are open, so that Publish sends on open channels only; Unsubscribe of
\* a subscribed id closes the channel of that id, removes the id and touches
\* no other channel; Unsubscribe of an id that is not subscribed and a
\* Close on an empty map change nothing; a closed channel is sent nothing
\* more, and after Close nothing is sent until a new Subscribe.
C33_SubjectClosesOnce ==
  /\ [](gsPanic = "none")
  /\ [](\A c \in GsChans : gsClosed[c] <= 1)
  /\ [](gsLast.op # "none" => \A c \in Subscribed : gsClosed[c] = 0)
  /\ [][(GsCall("Unsubscribe") /\ gsSubscribers[gsLast'.id] # 0) =>
          LET id == gsLast'.id
              c == gsSubscribers[id]
          IN /\ gsClosed' = [gsClosed EXCEPT ![c] = 1]
             /\ gsSubscribers' = [gsSubscribers EXCEPT ![id] = 0]]_vars
  /\ [][(GsCall("Unsubscribe") /\ gsSubscribers[gsLast'.id] = 0)
          => UNCHANGED <<gsSubscribers, gsClosed, gsBuf, gsGot>>]_vars
  /\ [][(GsCall("Close") /\ Subscribed = {})
          => UNCHANGED <<gsSubscribers, gsClosed, gsBuf, gsGot>>]_vars
  /\ [][(GsCall("Publish") \/ GsCall("send") \/ GsCall("return")) =>
          \A c \in GsChans :
            (gsClosed[c] > 0 \/ c \notin Subscribed) =>
              (gsBuf'[c] = gsBuf[c] /\ gsGot'[c] = gsGot[c])]_vars

\* two channels under distinct ids, both closed, one of them by Close, and a
\* Publish after that Close which reached nobody and has returned
C33_Witness ==
  /\ gsLast = Called("return", 1) /\ gsCloses = 1 /\ gsEvents = 1
  /\ Len(gsId) = 2 /\ gsId[1] # gsId[2] /\ gsCap = <<MaxBuf, MaxBuf>>
  /\ gsClosed = <<1, 1>> /\ gsBuf = <<<<>>, <<>>>> /\ gsGot = <<0, 0>>

\* C37: when Close returns, every channel Subscribe has made so far is
\* closed, also when Subscribe was called twice with the same id.
C37_CloseClosesEveryChannel ==
  [][GsCall("Close") => \A c \in GsChans : gsClosed'[c] >= 1]_vars
\* ---- Broadcaster, closing and order
SomeOutboxClosed == \E c \in Outboxes : outClosed[c] > 0

\* C34: no send or close on a closed outbox ever happens; an outbox is
\* closed only by the dispatcher in its closeAll, which it enters once, on
\* its way out; and once an outbox is closed the dispatcher begins no
\* broadcast and gives or refuses no value to any outbox.
C34_NoSendOnClosedOutbox ==
  /\ [](bPanic = "none" /\ \A c \in Outboxes : outClosed[c] <= 1)
  /\ [](SomeOutboxClosed => bpc \in {"closeAll", "done"})
  /\ [][outClosed' # outClosed => (bpc = "closeAll" /\ bDone)]_vars
  /\ [][(bpc = "closeAll" \/ bpc = "done") => (bpc' = "closeAll" \/ bpc' = "done")]_vars
  /\ [][SomeOutboxClosed =>
          /\ dispatched' = dispatched /\ dropped' = dropped
          /\ \A c \in Outboxes : Delivered(c)' = Delivered(c)]_vars

\* the dispatcher broadcast a value to two subscribers, then closed both
\* outboxes and returned, leaving a value in the inbox
C34_Witness ==
  /\ bpc = "done" /\ Len(subscribers) = 2 /\ outClosed[1] = 1 /\ outClosed[2] = 1
  /\ Delivered(1) = <<1>> /\ Delivered(2) = <<1>> /\ input # <<>>

\* C35: once Close has been called, every outbox that Subscribe has made or
\* makes later is closed in the end.
C35_EverySubscriptionClosed ==
  \A c \in Outboxes :
    (bDone /\ c <= Len(subscribers)) ~> (outClosed[c] >= 1 \/ bPanic # "none")

StrictlyIncreasing(q) == \A i, j \in 1..Len(q) : i < j => q[i] < q[j]

\* C36: the values the dispatcher takes from the inbox are those Send put
\* in, in the order of the Send calls (Send number k sends k); what a
\* subscriber was given is in that order, each value at most once, and
\* holds only values the dispatcher has taken.
C36_SubscriberOrder ==
  /\ StrictlyIncreasing(accepted)
  /\ IsPrefix(BroadcastValues(Len(dispatched)), accepted)
  /\ \A c \in Outboxes :
       /\ StrictlyIncreasing(Delivered(c))
       /\ SeqRange(Delivered(c)) \subseteq SeqRange(BroadcastValues(Len(dispatched)))

\* the second subscriber came after the first broadcast: it was given the
\* second value only, the first subscriber both
C36_Witness ==
  /\ Len(subscribers) = 2
  /\ Delivered(1) = <<1, 2>> /\ Delivered(2) = <<2>>
\* ---- a linear pipeline, cancelled
\* the values the stage has taken from the Generator so far
TakenFromGenerator == SubSeq(net[Gen].values, 1, idx[Gen] - 1)

\* C38: once the context is cancelled, what the stage has taken from the
\* Generator is an initial part of the argument list and what the consumer
\* has received is f applied to an initial part of that, value by value;
\* the stage has taken at most one value more than it has forwarded, which
\* is the value it holds, or the one it dropped when it returned.
C38_PrefixUnderCancellation ==
  (Stage \in DOMAIN net /\ Cons2 \notin DOMAIN net /\ ctxDone) =>
    LET f(x) == SpecF(net[Stage].kind, x)
        n == Len(got[Cons])
        taken == Len(TakenFromGenerator)
    IN /\ IsPrefix(TakenFromGenerator, net[Gen].values)
       /\ n <= taken /\ taken <= n + 1
       /\ \A i \in 1..n : got[Cons][i] = f(net[Gen].values[i])
       /\ (taken = n + 1 /\ pc[Stage] = "select") => val[Stage] = net[Gen].values[taken]
       /\ pc[Stage] = "range" => taken = n

\* cancelled mid-stream: the stage took two of three values, forwarded the
\* first, dropped the second and returned
C38_Witness ==
  /\ Stage \in DOMAIN net /\ Cons2 \notin DOMAIN net /\ ctxDone
  /\ net[Stage].kind = "SafePipeline" /\ net[Gen].values = <<1, 2, 1>>
  /\ got[Cons] = <<2>> /\ idx[Gen] = 3 /\ pc[Stage] = "done" /\ closed[Stage] = 1
\* ---- OrDone, not cancelled
\* the values OrDone has received from its source so far
FedToOrDone == SubSeq(net[Src].values, 1, idx[Src] - 1)

OrDoneRelaysInOrder ==
  (HasOrDone /\ ~ctxDone) =>
    LET n == Len(got[Cons])
        fed == Len(FedToOrDone)
    IN /\ IsPrefix(got[Cons], net[Src].values)
       /\ n <= fed /\ fed <= n + 1
       /\ pc[OrDoneP] = "select" => fed = n
       /\ pc[OrDoneP] = "select2" => fed = n + 1 /\ val[OrDoneP] = net[Src].values[fed]
       /\ closed[OrDoneP] > 0 =>
            closed[OrDoneP] = 1 /\ closed[Src] = 1 /\ got[Cons] = net[Src].values
       /\ pc[Cons] = "done" => got[Cons] = net[Src].values

\* C39: while the token is not cancelled, what the consumer of OrDone's
\* output has received is an initial part of the values of src, each once
\* and in order, OrDone holding at most the next one; the output is closed
\* only after src is closed and every value has been delivered, and once
\* src is closed the output is closed too while its consumer reads.
C39_OrDoneCarriesSrc ==
  /\ []OrDoneRelaysInOrder
  /\ (HasOrDone /\ ~ctxDone /\ closed[Src] > 0)
       ~> (HasOrDone /\ (closed[OrDoneP] = 1 \/ pc[Cons] = "stopped"))

\* not cancelled, src carried 2, 1, 2 and was closed: the consumer has read
\* 2, 1, 2 and seen the output closed
C39_Witness ==
  /\ HasOrDone /\ ~ctxDone /\ net[Src].kind = "Feeder"
  /\ net[Src].values = <<2, 1, 2>> /\ closed[Src] = 1
  /\ got[Cons] = <<2, 1, 2>> /\ closed[OrDoneP] = 1 /\ pc[Cons] = "done"
\* ---- WorkerPool, used after Close
\* a call on the closed queue is possible and can only end in that panic
FailsOnClosedQueue(call, message) ==
  /\ ENABLED (call /\ poolPanic' = message)
  /\ ~ENABLED (call /\ poolPanic' # message)

\* job j is in exactly one place: waiting in the queue, or taken by a worker
InOnePlace(j) == Count(jobs, j) + started[j] = 1

\* every job submitted so far has been called once and has returned
AllRanOnce == \A j \in 1..submitted : started[j] = 1 /\ finished[j] = 1

\* Once Close has closed the job queue, waiting in wg.Wait or returned, a
\* call of Submit and a second call of Close both end in the runtime's panic
\* on a closed channel and in nothing else; no step adds a job to the closed
\* queue, so the job of such a Submit is never in the queue and never
\* called; the failing call leaves the queue, the workers and the counts of
\* the jobs as they were; every job submitted before the close stays in the
\* queue or with a worker and is called at most once.
UseAfterCloseFails ==
  /\ []((jobsClosed /\ poolPanic = "none") =>
          /\ FailsOnClosedQueue(Close, "close of closed channel")
          /\ submitted < Len(started) =>
               FailsOnClosedQueue(Submit, "send on closed channel"))
  /\ [][jobsClosed => /\ submitted' = submitted /\ jobsClosed'
                      /\ (jobs' = jobs \/ jobs' = Tail(jobs))]_vars
  /\ [][poolPanic' # poolPanic =>
          /\ jobsClosed
          /\ UNCHANGED <<jobs, jobsClosed, submitted, started, finished, wpc, wjob,
                         poolWg, closePc>>]_vars
  /\ [](\A j \in DOMAIN started :
          IF j <= submitted
          THEN InOnePlace(j) /\ finished[j] <= started[j]
          ELSE Count(jobs, j) = 0 /\ started[j] = 0 /\ finished[j] = 0)

\* C40 as stated (it fails: the panic of a Submit or of a second Close that
\* races with the first Close ends the program while jobs are still in the
\* queue, and these are never run): use after Close fails as above, and the
\* jobs enqueued before the close still run, each exactly once.
C40_Original ==
  /\ UseAfterCloseFails
  /\ (jobsClosed ~> AllRanOnce)

\* C40, amended: use after Close fails as above; the jobs enqueued before the
\* close have all run exactly once when Close has returned, so a misuse
\* after that loses nothing; while Close is still waiting they run exactly
\* once unless the panic of a racing Submit or Close ends the program first,
\* and then those still in the queue are never run.
C40_NoDefenceAfterClose ==
  /\ UseAfterCloseFails
  /\ [](closePc = "returned" => AllRanOnce)
  /\ [](poolPanic # "none" =>
          \A j \in 1..submitted : Count(jobs, j) = 1 => started[j] = 0 /\ ~ENABLED PoolStep)
  /\ (jobsClosed ~> (AllRanOnce \/ poolPanic # "none"))

\* a Submit racing with Close: job 1 has run, job 2 is still in the queue,
\* Close waits for the workers, and the Submit of a third job has panicked
C40_Witness ==
  /\ jobsClosed /\ closePc = "waiting"
  /\ poolPanic = "send on closed channel"
  /\ submitted = 2 /\ finished[1] = 1 /\ jobs = <<2>> /\ started[3] = 0
====
